---- MODULE Spec2Model ----
(***************************************************************************)
(* A model of the SMSC of rust-smpp: the listener with its admission       *)
(* semaphore, one session task per accepted connection (process_stream,    *)
(* process, process_loop, handle_pdu, handle_bind_pdu), the router object  *)
(* Smsc with its registry field `connection`, the tasks it spawns to write *)
(* a deliver_sm, and SmppConnection with its two halves.                   *)
(*                                                                         *)
(* A frame on the wire is modelled by what SmppRead::parse_pdu makes of    *)
(* it: a Pdu, or a PduParseError.                                          *)
(***************************************************************************)
EXTENDS Integers, Sequences, FiniteSets, TLC

\* ------------------------------------------------------------------ bounds

\* Three workloads bound what the clients, the Logic and the host do in one
\* run. Each gives the number of connections the listener accepts, of frames
\* the clients send (all connections together) and of calls of
\* Smsc::receive_pdu the host makes.

\* Admission: more clients than permits, hardly any traffic.
AdmissionConns == 3
AdmissionFrames == 1

\* Routing: two clients that bind and submit, and delivery receipts.
RoutingConns == 2
RoutingFrames == 3
RoutingHostCalls == 1

\* Session: one client that sends every kind of frame.
SessionFrames == 2
SessionHostCalls == 1

\* Writer: one client, one delivery receipt, a peer that reads slowly.
WriterFrames == 3
WriterHostCalls == 1

\* Receipt: one client that binds and submits, and two delivery receipts.
ReceiptFrames == 2
ReceiptHostCalls == 2
TeardownFrames == 2
TeardownHostCalls == 1
WorkerThreads == 2

\* Connection: one SmppConnection whose holder calls read_pdu, write_pdu and
\* disconnect in any order; the client sends up to ConnFrames frames and
\* the holder writes up to ConnWrites PDUs.
ConnFrames == 2
ConnWrites == 2

\* ------------------------------------------------------- program constants

\* SmscConfig.max_open_sockets, as the test server sets it.
MaxOpenSockets == 2

ESME_ROK == 0
ESME_RINVCMDLEN == 2
ESME_RINVCMDID == 3
ESME_RSYSERR == 8
ESME_RINVPASWD == 14

\* SmscConfig.system_id of the test server.
SystemId == "TestServer"

Conns == 1..AdmissionConns

\* Option::None, for a connection, a PDU, a field of an error.
None == 0

\* ------------------------------------------------------------------- PDUs

BindKinds == {"bind_receiver", "bind_transmitter", "bind_transceiver"}

\* The command_id of the PduBody variants that smsc.rs matches on and whose
\* operation files are not part of pdu.rs: the ids SMPP gives them.
CommandIdOfOtherOperations(kind) ==
    CASE kind = "bind_receiver"         -> [top |-> 0, low |-> 1]
      [] kind = "bind_receiver_resp"    -> [top |-> 1, low |-> 1]
      [] kind = "deliver_sm"            -> [top |-> 0, low |-> 5]
      [] kind = "deliver_sm_resp"       -> [top |-> 1, low |-> 5]
      [] kind = "bind_transceiver"      -> [top |-> 0, low |-> 9]
      [] kind = "bind_transceiver_resp" -> [top |-> 1, low |-> 9]
      [] kind = "enquire_link"          -> [top |-> 0, low |-> 21]
      [] kind = "enquire_link_resp"     -> [top |-> 1, low |-> 21]

\* Pdu::command_id: the command_id of each PduBody variant; top is bit 31,
\* low the other bits.
CommandId(kind) ==
    CASE kind = "generic_nack"          -> [top |-> 1, low |-> 0]
      [] kind = "bind_transmitter"      -> [top |-> 0, low |-> 2]
      [] kind = "bind_transmitter_resp" -> [top |-> 1, low |-> 2]
      [] kind = "submit_sm"             -> [top |-> 0, low |-> 4]
      [] kind = "submit_sm_resp"        -> [top |-> 1, low |-> 4]
      [] OTHER -> CommandIdOfOtherOperations(kind)

\* A body that is absent: a header-only PDU.
NoBody == <<>>

\* Pdu::new: the record of a PDU. body is NoBody, <<system_id>> for a bind
\* response, <<message_id>> for a submit_sm_resp, the short_message for a
\* deliver_sm.
Pdu(command_status, sequence_number, kind, body) ==
    [kind |-> kind, command_status |-> command_status,
     sequence_number |-> sequence_number, body |-> body]

\* A short_message, split after its first three bytes: head is those bytes,
\* rest what follows them (a message id, or NotUtf8 for bytes that are not
\* valid UTF-8).
ShortMessage(head, rest) == [head |-> head, rest |-> rest]

NotUtf8 == -1

\* The short_message of a delivery receipt for message id m, as the tests
\* build it: the bytes "id:" followed by the id.
Receipt(m) == ShortMessage("id:", m)

\* An extract_receipted_message_id that takes what follows the first three
\* bytes for the message id whatever those bytes are.
extract_receipted_message_id_AnyPrefix(short_message) ==
    IF short_message.rest # NotUtf8
    THEN short_message.rest
    ELSE None

\* DeliverSmPdu::extract_receipted_message_id: the bytes after a leading
\* "id:" when they are UTF-8, None otherwise.
extract_receipted_message_id(short_message) ==
    IF short_message.head = "id:" /\ short_message.rest # NotUtf8
    THEN short_message.rest
    ELSE None

\* Option<u32>: Some(x), or Nothing.
Some(x) == <<x>>
Nothing == <<>>
unwrap_or(o, default) == IF o = Nothing THEN default ELSE o[1]

\* A PduParseError as handle_pdu_parse_error reads it: the command_id and
\* sequence_number the parser had reached (Nothing when it had not) and the
\* PduParseErrorBody variant.
PduParseError(command_id, sequence_number, body) ==
    [kind |-> "error", command_id |-> command_id,
     sequence_number |-> sequence_number, body |-> body]

\* PduParseError::status: the command_status an error is answered with.
status(error) ==
    CASE error.body \in {"LengthTooShort", "LengthTooLong",
                         "LengthLongerThanPdu"} -> ESME_RINVCMDLEN
      [] error.body = "UnknownCommandId" -> ESME_RINVCMDID
      [] OTHER -> ESME_RSYSERR

\* What a session holds between two steps: no PDU, no response.
NoPdu == [kind |-> "none"]
NoResponse == [pdu |-> NoPdu, then |-> "none"]

\* A response to write, and what process_loop does once it is written:
\* "continue" with the next read_pdu, or return the ProcessError named.
Response(pdu, then) == [pdu |-> pdu, then |-> then]

\* ------------------------------------------------------------ environment

\* What read_pdu makes of a frame is its tag: the PduBody variant of a PDU,
\* the PduParseErrorBody variant of an error.
FrameTag(f) == IF f.kind = "error" THEN f.body ELSE f.kind

AdmissionEnv ==
    [conns |-> AdmissionConns, frames |-> AdmissionFrames, host |-> 0,
     tags |-> {"enquire_link", "generic_nack", "LengthTooShort"},
     closes |-> {"eof", "eof_mid_pdu"}, slow |-> FALSE,
     bind |-> {"Ok"}, submit_sm |-> {"Ok"}]

RoutingEnv ==
    [conns |-> RoutingConns, frames |-> RoutingFrames,
     host |-> RoutingHostCalls,
     tags |-> {"bind_transceiver", "submit_sm"},
     closes |-> {"eof"}, slow |-> FALSE,
     bind |-> {"Ok"}, submit_sm |-> {"Ok"}]

SessionEnv ==
    [conns |-> 1, frames |-> SessionFrames, host |-> SessionHostCalls,
     tags |-> {"bind_receiver", "bind_transmitter", "bind_transceiver",
               "enquire_link", "submit_sm", "generic_nack",
               "bind_transmitter_resp", "deliver_sm_resp",
               "COctetStringNotAscii", "LengthLongerThanPdu",
               "OctetStringCreationError", "UnknownCommandId",
               "LengthTooShort", "LengthTooLong"},
     closes |-> {"eof", "eof_mid_pdu"}, slow |-> FALSE,
     bind |-> {"Ok", "IncorrectPassword", "InternalError"},
     submit_sm |-> {"Ok", "InternalError"}]

\* slow: the client reads so slowly that the send buffer of its socket
\* fills up, and a write to the socket may take only a part of the bytes.
WriterEnv ==
    [conns |-> 1, frames |-> WriterFrames, host |-> WriterHostCalls,
     tags |-> {"bind_transceiver", "enquire_link"},
     closes |-> {}, slow |-> TRUE,
     bind |-> {"Ok"}, submit_sm |-> {"Ok"}]

ReceiptEnv ==
    [conns |-> 1, frames |-> ReceiptFrames, host |-> ReceiptHostCalls,
     tags |-> {"bind_transceiver", "submit_sm"},
     closes |-> {}, slow |-> FALSE,
     bind |-> {"Ok"}, submit_sm |-> {"Ok"}]

Environments ==
    {AdmissionEnv, RoutingEnv, SessionEnv, WriterEnv, ReceiptEnv}

\* The workload of the teardown of a session: one client that binds, may
\* send an enquire_link and closes, while the host passes receipts to the
\* router. threads is the number of worker threads of the runtime the
\* tasks are spawned on (Runtime::new gives one per core).
TeardownEnv(threads) ==
    [conns |-> 1, frames |-> TeardownFrames, host |-> TeardownHostCalls,
     tags |-> {"bind_transceiver", "enquire_link"},
     closes |-> {"eof"}, slow |-> FALSE,
     bind |-> {"Ok"}, submit_sm |-> {"Ok"}, threads |-> threads]

TeardownEnvs == {TeardownEnv(n) : n \in 1..WorkerThreads}

\* The workload of the specification of one SmppConnection.
ConnEnv ==
    [conns |-> 1, frames |-> ConnFrames, host |-> 0,
     tags |-> {"enquire_link", "submit_sm", "LengthTooShort"},
     closes |-> {"eof", "eof_mid_pdu"}, slow |-> FALSE,
     bind |-> {"Ok"}, submit_sm |-> {"Ok"}]

\* The holder of the mutex SmppConnection.write: nobody, the session of
\* the connection, or the task the router spawned to write pdu.
NoWriter == [by |-> "none"]
SessionWriter == [by |-> "session"]
RouterWriter(pdu) == [by |-> "router", pdu |-> pdu]

\* ------------------------------------------------------------------ codec

\* The codec works on bytes. A byte view is a sequence of bytes; an offset
\* o into it counts from 0, so the byte at offset o is bytes[o + 1].

\* A u32 as two 16-bit halves, value hi * 2^16 + lo.
U32(n) == [hi |-> n \div 65536, lo |-> n % 65536]

\* The largest u32, 0xFFFFFFFF.
U32Max == [hi |-> 65535, lo |-> 65535]

\* a > b on u32.
Gt(a, b) == a.hi > b.hi \/ (a.hi = b.hi /\ a.lo > b.lo)

\* The value of a u32 that is known to be small.
Val(u) == u.hi * 65536 + u.lo

Min(a, b) == IF a < b THEN a ELSE b

\* a - k on u32, for a small k, as the build computes it: with overflow
\* checks (the debug profile) a result below zero panics, without them (the
\* release profile) it wraps around modulo 2^32.
u32_sub(a, k, overflow_checks) ==
    IF a.hi = 0 /\ a.lo < k
    THEN [panic |-> overflow_checks,
          value |-> [hi |-> 65535, lo |-> a.lo + 65536 - k]]
    ELSE IF a.lo >= k
         THEN [panic |-> FALSE, value |-> [hi |-> a.hi, lo |-> a.lo - k]]
         ELSE [panic |-> FALSE,
               value |-> [hi |-> a.hi - 1, lo |-> a.lo + 65536 - k]]

\* u32::from_be_bytes and its inverse, which write_u32 puts on the stream.
from_be_bytes(b) == [hi |-> b[1] * 256 + b[2], lo |-> b[3] * 256 + b[4]]
to_be_bytes(u) ==
    <<u.hi \div 256, u.hi % 256, u.lo \div 256, u.lo % 256>>

\* Integer4::read at offset pos of a reader that ends at offset end:
\* read_exact of 4 bytes. A reader too short has been read to its end.
Integer4_read(bytes, pos, end) ==
    IF pos + 4 <= end
    THEN [ok |-> TRUE, value |-> from_be_bytes(SubSeq(bytes, pos + 1, pos + 4)),
          pos |-> pos + 4]
    ELSE [ok |-> FALSE, value |-> U32(0), pos |-> end]

\* The longest and the shortest command_length a PDU may declare.
MAX_PDU_LENGTH == 70000
MIN_PDU_LENGTH == 8

\* A validate_command_length that knows no maximum.
validate_command_length_MinOnly(len) ==
    IF Gt(U32(MIN_PDU_LENGTH), len) THEN "LengthTooShort" ELSE "Ok"

\* validate_command_length.
validate_command_length(len) ==
    IF Gt(len, U32(MAX_PDU_LENGTH)) THEN "LengthTooLong"
    ELSE IF Gt(U32(MIN_PDU_LENGTH), len) THEN "LengthTooShort"
    ELSE "Ok"

\* Read::take: the offset at which a reader that stands at pos and ends at
\* end is cut off when at most limit more bytes may be read.
take(pos, end, limit) ==
    IF limit.hi > 0 \/ pos + limit.lo > end THEN end ELSE pos + limit.lo

\* check_can_read: read_exact of command_length - 4 bytes.
check_can_read(bytes, pos, command_length, overflow_checks) ==
    LET len == u32_sub(command_length, 4, overflow_checks) IN
    IF len.panic THEN [outcome |-> "panic", position |-> pos]
    ELSE IF len.value.hi = 0 /\ pos + len.value.lo <= Len(bytes)
         THEN [outcome |-> "Ready", position |-> pos + len.value.lo]
         ELSE [outcome |-> "Incomplete", position |-> Len(bytes)]

\* check (and Pdu::check, which calls it) on a byte view with the cursor at
\* its start: the outcome and where the cursor is left.
check(bytes, overflow_checks) ==
    LET len == Integer4_read(bytes, 0, Len(bytes)) IN
    IF ~len.ok THEN [outcome |-> "Incomplete", position |-> len.pos]
    ELSE IF validate_command_length(len.value) # "Ok"
         THEN [outcome |-> validate_command_length(len.value),
               position |-> len.pos]
         ELSE check_can_read(bytes, len.pos, len.value, overflow_checks)

\* The fields of a body: a C-octet string of at most max bytes with its
\* NUL, a one-byte integer, or a short_message behind its sm_length.
C(max) == [t |-> "C", max |-> max]
I1 == [t |-> "I1", max |-> 1]
SM == [t |-> "SM", max |-> 254]

\* The fields each body parser reads, in order.
FieldSpecs(kind, command_status) ==
    CASE kind = "bind_transmitter" ->
            <<C(16), C(9), C(13), I1, I1, I1, C(41)>>
      [] kind = "bind_transmitter_resp" ->
            IF command_status = 0 THEN <<C(16)>> ELSE <<>>
      [] kind = "submit_sm" ->
            <<C(6), I1, I1, C(21), I1, I1, C(21), I1, I1, I1, C(17), C(17),
              I1, I1, I1, I1, SM>>
      [] kind = "submit_sm_resp" ->
            IF command_status = 0 THEN <<C(65)>> ELSE <<>>
      [] OTHER -> <<>>

\* The offset of the first NUL at or after pos and before lim; lim when
\* there is none.
FirstNul(bytes, pos, lim) ==
    IF \E o \in pos..(lim - 1) : bytes[o + 1] = 0
    THEN CHOOSE o \in pos..(lim - 1) :
            /\ bytes[o + 1] = 0
            /\ \A p \in pos..(o - 1) : bytes[p + 1] # 0
    ELSE lim

\* A COctetString::read that does not look at how many bytes it has read
\* when it has found no NUL.
COctetString_read_NoCount(bytes, pos, end, max_len) ==
    LET lim == Min(end, pos + max_len)
        z == FirstNul(bytes, pos, lim)
    IN  IF z = lim
        THEN [ok |-> FALSE, pos |-> lim, value |-> <<>>,
              err |-> "COctetStringDoesNotEndWithZeroByte"]
        ELSE LET value == SubSeq(bytes, pos + 1, z) IN
             IF \E i \in 1..Len(value) : value[i] >= 128
             THEN [ok |-> FALSE, pos |-> z + 1, value |-> <<>>,
                   err |-> "COctetStringIsNotAscii"]
             ELSE [ok |-> TRUE, pos |-> z + 1, value |-> value,
                   err |-> "none"]

\* COctetString::read: take(max_len).read_until(0), then the ASCII check.
COctetString_read(bytes, pos, end, max_len) ==
    LET lim == Min(end, pos + max_len)
        z == FirstNul(bytes, pos, lim)
    IN  IF z = lim
        THEN [ok |-> FALSE, pos |-> lim, value |-> <<>>,
              err |-> IF lim - pos = max_len
                      THEN "COctetStringTooLong"
                      ELSE "COctetStringDoesNotEndWithZeroByte"]
        ELSE LET value == SubSeq(bytes, pos + 1, z) IN
             IF \E i \in 1..Len(value) : value[i] >= 128
             THEN [ok |-> FALSE, pos |-> z + 1, value |-> <<>>,
                   err |-> "COctetStringIsNotAscii"]
             ELSE [ok |-> TRUE, pos |-> z + 1, value |-> value,
                   err |-> "none"]

\* Integer1::read: read_exact of one byte.
Integer1_read(bytes, pos, end) ==
    IF pos + 1 <= end
    THEN [ok |-> TRUE, pos |-> pos + 1, value |-> <<bytes[pos + 1]>>,
          err |-> "none"]
    ELSE [ok |-> FALSE, pos |-> end, value |-> <<>>,
          err |-> "NotEnoughBytes"]

\* OctetString::read behind Integer1::read of sm_length: exactly sm_length
\* bytes, at most max_len.
OctetString_read(bytes, pos, end, max_len) ==
    LET sm_length == Integer1_read(bytes, pos, end) IN
    IF ~sm_length.ok THEN sm_length
    ELSE LET length == sm_length.value[1] IN
         IF length > max_len
         THEN [ok |-> FALSE, pos |-> sm_length.pos, value |-> <<>>,
               err |-> "OctetStringTooLong"]
         ELSE IF sm_length.pos + length > end
         THEN [ok |-> FALSE, pos |-> end, value |-> <<>>,
               err |-> "NotEnoughBytes"]
         ELSE [ok |-> TRUE, pos |-> sm_length.pos + length,
               value |-> SubSeq(bytes, sm_length.pos + 1,
                                sm_length.pos + length),
               err |-> "none"]

ReadField(bytes, pos, end, spec) ==
    CASE spec.t = "C" -> COctetString_read(bytes, pos, end, spec.max)
      [] spec.t = "I1" -> Integer1_read(bytes, pos, end)
      [] spec.t = "SM" -> OctetString_read(bytes, pos, end, spec.max)

\* A body parser: the fields are read one after the other into values;
\* the first error ends the parse.
RECURSIVE ParseFields(_, _, _, _, _)
ParseFields(bytes, pos, end, specs, values) ==
    IF specs = <<>>
    THEN [ok |-> TRUE, pos |-> pos, values |-> values, err |-> "none"]
    ELSE LET f == ReadField(bytes, pos, end, Head(specs)) IN
         IF ~f.ok
         THEN [ok |-> FALSE, pos |-> f.pos, values |-> <<>>, err |-> f.err]
         ELSE ParseFields(bytes, f.pos, end, Tail(specs),
                          Append(values, f.value))

\* A command_id as a u32: bit 31 is the top bit of hi.
CommandIdU32(kind) ==
    [hi |-> CommandId(kind).top * 32768, lo |-> CommandId(kind).low]

\* The body variants parse_body has an arm for.
ParsedKinds ==
    {"bind_transmitter", "bind_transmitter_resp", "submit_sm",
     "submit_sm_resp"}

\* parse_body: the arm of its match on command_id; "_" is the default arm.
parse_body_arm(command_id) ==
    IF \E k \in ParsedKinds : CommandIdU32(k) = command_id
    THEN CHOOSE k \in ParsedKinds : CommandIdU32(k) = command_id
    ELSE "_"

\* SubmitSmPdu::parse checks command_status before it reads a field.
checks_before_fields(kind, command_status) ==
    IF kind = "submit_sm" /\ command_status # 0
    THEN "StatusIsNotZero"
    ELSE "Ok"

\* The checks of the body parsers once the fields are read: the two times
\* of a submit_sm have 0 or 16 characters (validate_length_1_or_17), and a
\* submit_sm_resp with a status other than 0 is followed by no byte.
checks_after_fields(kind, command_status, pos, end, values) ==
    CASE kind = "submit_sm"
         /\ (\/ Len(values[11]) \notin {0, 16}
             \/ Len(values[12]) \notin {0, 16}) ->
            "IncorrectLength"
      [] kind = "submit_sm_resp" /\ command_status # 0 /\ pos < end ->
            "BodyNotAllowedWhenStatusIsNotZero"
      [] OTHER -> "Ok"

\* The bodies of requests, and those of responses that have fields.
RequestKinds == {"bind_transmitter", "submit_sm"}
ResponseKinds == {"bind_transmitter_resp", "submit_sm_resp"}

\* validate_command_status of a body: a request comes with command_status
\* 0, and a response with another status than 0 is header-only.
validate_command_status(kind, values, command_status) ==
    IF kind \in RequestKinds /\ command_status # 0
    THEN "StatusIsNotZero"
    ELSE IF kind \in ResponseKinds /\ command_status # 0 /\ values # <<>>
    THEN "BodyNotAllowedWhenStatusIsNotZero"
    ELSE "Ok"

\* command_status as the body parsers compare it: 0 or not. A status that
\* needs the upper half of the u32 is another status than 0.
StatusOf(command_status) ==
    IF command_status.hi = 0 THEN command_status.lo ELSE 65536

\* What parse_body returns: the body, or the error and where the reader
\* stood when it was found.
Body(kind, values, pos) ==
    [ok |-> TRUE, pos |-> pos, kind |-> kind, values |-> values,
     err |-> "none"]
NoBodyParsed(err, pos) ==
    [ok |-> FALSE, pos |-> pos, kind |-> "_", values |-> <<>>, err |-> err]

\* A body parser once its fields are read. A submit_sm_resp that looks for
\* a byte after its header reads that byte.
parse_body_fields(kind, command_status, end, fields) ==
    IF ~fields.ok THEN NoBodyParsed(fields.err, fields.pos)
    ELSE IF checks_after_fields(kind, command_status, fields.pos, end,
                                fields.values)
            = "BodyNotAllowedWhenStatusIsNotZero"
    THEN NoBodyParsed("BodyNotAllowedWhenStatusIsNotZero", fields.pos + 1)
    ELSE IF checks_after_fields(kind, command_status, fields.pos, end,
                                fields.values) # "Ok"
    THEN NoBodyParsed("IncorrectLength", fields.pos)
    ELSE Body(kind, fields.values, fields.pos)

\* The arm kind of parse_body: the body parser of that variant.
parse_body_of(kind, bytes, pos, end, command_status) ==
    IF kind = "_" THEN NoBodyParsed("UnknownCommandId", pos)
    ELSE IF checks_before_fields(kind, command_status) # "Ok"
    THEN NoBodyParsed(checks_before_fields(kind, command_status), pos)
    ELSE parse_body_fields(kind, command_status, end,
            ParseFields(bytes, pos, end, FieldSpecs(kind, command_status),
                        <<>>))

\* parse_body on the reader cut off at end.
parse_body(bytes, pos, end, command_id, command_status) ==
    parse_body_of(parse_body_arm(command_id), bytes, pos, end,
                  command_status)

\* What Pdu::parse returns: result is "Ok" with the Pdu, the
\* PduParseErrorBody variant of the error, or "panic"; position is where
\* the cursor of the caller is left, that is how many bytes were read.
\* header is what the error says of the header of the PDU: command_id,
\* command_status and sequence_number, each Nothing until attached.
Header(command_id, command_status, sequence_number) ==
    [command_id |-> command_id, command_status |-> command_status,
     sequence_number |-> sequence_number]

NoHeader == Header(Nothing, Nothing, Nothing)

ParseResult(result, pdu, position) ==
    [result |-> result, pdu |-> pdu, position |-> position,
     header |-> NoHeader]

\* A command_id read from the wire, as CommandId writes it.
CommandIdOf(u) ==
    [top |-> u.hi \div 32768, low |-> (u.hi % 32768) * 65536 + u.lo]

\* PduParseError::into_with_header on the Err of a result (map_err):
\* the error takes the header fields given.
into_with_header(r, command_id, command_status, sequence_number) ==
    IF r.result = "Ok" THEN r
    ELSE [r EXCEPT !.header =
                      Header(command_id, command_status, sequence_number)]

\* hfld: the error of a header field that cannot be read is the length
\* error when the length is invalid, the I/O error otherwise.
hfld_error(command_length) ==
    IF validate_command_length(command_length) # "Ok"
    THEN validate_command_length(command_length)
    ELSE "NotEnoughBytes"

\* Pdu::parse once parse_body has returned: no byte of the frame may be
\* left over (the read that finds one takes it), and the status must fit
\* the body.
parse_leftover(body, end, command_status, sequence_number) ==
    IF ~body.ok THEN ParseResult(body.err, NoPdu, body.pos)
    ELSE IF body.pos < end
    THEN ParseResult("LengthLongerThanPdu", NoPdu, body.pos + 1)
    ELSE IF validate_command_status(body.kind, body.values, command_status)
            # "Ok"
    THEN ParseResult(validate_command_status(body.kind, body.values,
                                             command_status),
                     NoPdu, body.pos)
    ELSE ParseResult("Ok",
                     Pdu(command_status, sequence_number, body.kind,
                         body.values),
                     body.pos)

\* Pdu::parse once the reader is cut off at end: the three other fields
\* of the header, the check of command_length, then the body.
parse_header(bytes, pos, end, command_length) ==
    LET command_id == Integer4_read(bytes, pos, end)
        command_status == Integer4_read(bytes, command_id.pos, end)
        sequence_number == Integer4_read(bytes, command_status.pos, end)
    IN
    IF ~command_id.ok
    THEN ParseResult(hfld_error(command_length), NoPdu, command_id.pos)
    ELSE IF ~command_status.ok
    THEN into_with_header(
            ParseResult(hfld_error(command_length), NoPdu,
                        command_status.pos),
            Some(CommandIdOf(command_id.value)), Nothing, Nothing)
    ELSE IF ~sequence_number.ok
    THEN into_with_header(
            ParseResult(hfld_error(command_length), NoPdu,
                        sequence_number.pos),
            Some(CommandIdOf(command_id.value)),
            Some(StatusOf(command_status.value)), Nothing)
    ELSE IF validate_command_length(command_length) # "Ok"
    THEN into_with_header(
            ParseResult(validate_command_length(command_length), NoPdu,
                        sequence_number.pos),
            Some(CommandIdOf(command_id.value)),
            Some(StatusOf(command_status.value)),
            Some(Val(sequence_number.value)))
    ELSE into_with_header(
            parse_leftover(
                parse_body(bytes, sequence_number.pos, end, command_id.value,
                           StatusOf(command_status.value)),
                end, StatusOf(command_status.value),
                Val(sequence_number.value)),
            Some(CommandIdOf(command_id.value)),
            Some(StatusOf(command_status.value)),
            Some(Val(sequence_number.value)))

\* Pdu::parse on a byte view with the cursor at its start: command_length
\* is read, and the reader cut off command_length - 4 bytes further on.
parse(bytes, overflow_checks) ==
    LET command_length == Integer4_read(bytes, 0, Len(bytes))
        limit == u32_sub(command_length.value, 4, overflow_checks)
    IN
    IF ~command_length.ok
    THEN ParseResult("NotEnoughBytes", NoPdu, command_length.pos)
    ELSE IF limit.panic
    THEN ParseResult("panic", NoPdu, command_length.pos)
    ELSE parse_header(bytes, command_length.pos,
                      take(command_length.pos, Len(bytes), limit.value),
                      command_length.value)

\* A parse_pdu that leaves the bytes of the PDU it returns in the buffer.
parse_pdu_KeepsBuffer(buffer, overflow_checks) ==
    LET chk == check(buffer, overflow_checks) IN
    CASE chk.outcome = "Ready" ->
            LET pdu == parse(buffer, overflow_checks)
            IN  [result |-> pdu.result, pdu |-> pdu.pdu, buffer |-> buffer,
                 header |-> pdu.header]
      [] chk.outcome = "Incomplete" ->
            [result |-> "None", pdu |-> NoPdu, buffer |-> buffer,
             header |-> NoHeader]
      [] OTHER ->
            [result |-> chk.outcome, pdu |-> NoPdu, buffer |-> buffer,
             header |-> NoHeader]

\* SmppRead::parse_pdu on the receive buffer: what it returns and the
\* buffer it leaves. The error of Pdu::parse is passed on as it is, that
\* of Pdu::check is converted (From<CheckError>) and has no header field.
parse_pdu(buffer, overflow_checks) ==
    LET chk == check(buffer, overflow_checks) IN
    CASE chk.outcome = "Ready" ->
            LET len == chk.position
                pdu == parse(buffer, overflow_checks)
            IN  IF pdu.result = "Ok"
                THEN [result |-> "Ok", pdu |-> pdu.pdu,
                      buffer |-> SubSeq(buffer, len + 1, Len(buffer)),
                      header |-> NoHeader]
                ELSE [result |-> pdu.result, pdu |-> NoPdu,
                      buffer |-> buffer, header |-> pdu.header]
      [] chk.outcome = "Incomplete" ->
            [result |-> "None", pdu |-> NoPdu, buffer |-> buffer,
             header |-> NoHeader]
      [] OTHER ->
            [result |-> chk.outcome, pdu |-> NoPdu, buffer |-> buffer,
             header |-> NoHeader]

\* The bytes a body writes into buf: each field as formats.rs writes it.
RECURSIVE WriteFields(_, _)
WriteFields(specs, values) ==
    IF specs = <<>> \/ values = <<>> THEN <<>>
    ELSE (CASE Head(specs).t = "C" -> Head(values) \o <<0>>
            [] Head(specs).t = "I1" -> Head(values)
            [] Head(specs).t = "SM" -> <<Len(Head(values))>> \o Head(values))
         \o WriteFields(Tail(specs), Tail(values))

\* Pdu::new: the Pdu, or the error of validate_command_status.
new(command_status, sequence_number, kind, body) ==
    IF validate_command_status(kind, body, command_status) # "Ok"
    THEN ParseResult(validate_command_status(kind, body, command_status),
                     NoPdu, 0)
    ELSE ParseResult("Ok", Pdu(command_status, sequence_number, kind, body),
                     0)

\* Pdu::write: the bytes it puts on the stream, command_length first.
write(pdu) ==
    LET buf == to_be_bytes(CommandIdU32(pdu.kind))
               \o to_be_bytes(U32(pdu.command_status))
               \o to_be_bytes(U32(pdu.sequence_number))
               \o WriteFields(FieldSpecs(pdu.kind, pdu.command_status),
                              pdu.body)
    IN  to_be_bytes(U32(Len(buf) + 4)) \o buf

\* The PDUs the codec is given: one of each body, with short strings
\* ("ab" is <<97, 98>>, "1" is <<49>>), and the submit_sm_resp with the
\* message_id "".
CodecPdus ==
    {Pdu(ESME_RINVCMDID, 1, "generic_nack", <<>>),
     Pdu(ESME_ROK, 2, "bind_transmitter_resp", <<<<97, 98>>>>),
     Pdu(ESME_ROK, 3, "submit_sm_resp", <<<<49>>>>),
     Pdu(ESME_ROK, 3, "submit_sm_resp", <<<<>>>>),
     Pdu(ESME_RSYSERR, 3, "submit_sm_resp", <<>>),
     Pdu(ESME_ROK, 4, "bind_transmitter",
         <<<<97>>, <<112>>, <<>>, <<52>>, <<0>>, <<0>>, <<>>>>),
     Pdu(ESME_ROK, 5, "submit_sm",
         <<<<>>, <<0>>, <<0>>, <<49>>, <<0>>, <<0>>, <<50>>, <<0>>, <<0>>,
           <<0>>, <<>>, <<>>, <<0>>, <<0>>, <<0>>, <<0>>, <<104, 105>>>>)}

\* The arguments Pdu::new is called with: those of the PDUs above, a
\* request with a status other than 0, responses with such a status and a
\* body, and responses with status 0 and no body (the body of
\* SubmitSmRespPdu::new_error).
NewArgs ==
    CodecPdus
    \cup {Pdu(ESME_RSYSERR, 4, "bind_transmitter",
              <<<<97>>, <<112>>, <<>>, <<52>>, <<0>>, <<0>>, <<>>>>),
          Pdu(ESME_RSYSERR, 2, "bind_transmitter_resp", <<<<97, 98>>>>),
          Pdu(ESME_RSYSERR, 2, "bind_transmitter_resp", <<>>),
          Pdu(ESME_RSYSERR, 3, "submit_sm_resp", <<<<49>>>>),
          Pdu(ESME_ROK, 2, "bind_transmitter_resp", <<>>),
          Pdu(ESME_ROK, 3, "submit_sm_resp", <<>>)}

\* Frames no Pdu::write produces: a command_id without a body parser, and
\* a bind_transmitter_resp whose system_id is not ASCII.
OddFrames ==
    {to_be_bytes(U32(16)) \o <<0, 0, 0, 153>> \o to_be_bytes(U32(0))
        \o to_be_bytes(U32(6)),
     to_be_bytes(U32(18)) \o to_be_bytes(CommandIdU32("bind_transmitter_resp"))
        \o to_be_bytes(U32(0)) \o to_be_bytes(U32(7)) \o <<200, 0>>}

\* The bytes that follow a frame in the buffer.
ExtraBytes == <<0, 0, 0>>

\* The frames the buffers are made of.
CodecFrames == {write(p) : p \in CodecPdus} \cup OddFrames

\* A continuation byte of UTF-8.
Cont(b) == b >= 128 /\ b <= 191

\* How many bytes the UTF-8 sequence starting at bytes[i] has, 0 when there
\* is no well-formed sequence there (std::str::from_utf8: no overlong
\* form, no surrogate, nothing above U+10FFFF).
Utf8Width(bytes, i) ==
    LET n == Len(bytes)
        b0 == bytes[i]
        b1 == IF i + 1 <= n THEN bytes[i + 1] ELSE 0
        b2 == IF i + 2 <= n THEN bytes[i + 2] ELSE 0
        b3 == IF i + 3 <= n THEN bytes[i + 3] ELSE 0
    IN  CASE b0 < 128 -> 1
          [] b0 >= 194 /\ b0 <= 223 -> IF Cont(b1) THEN 2 ELSE 0
          [] b0 = 224 ->
                IF b1 >= 160 /\ b1 <= 191 /\ Cont(b2) THEN 3 ELSE 0
          [] (b0 >= 225 /\ b0 <= 236) \/ b0 \in {238, 239} ->
                IF Cont(b1) /\ Cont(b2) THEN 3 ELSE 0
          [] b0 = 237 ->
                IF b1 >= 128 /\ b1 <= 159 /\ Cont(b2) THEN 3 ELSE 0
          [] b0 = 240 ->
                IF b1 >= 144 /\ b1 <= 191 /\ Cont(b2) /\ Cont(b3)
                THEN 4 ELSE 0
          [] b0 >= 241 /\ b0 <= 243 ->
                IF Cont(b1) /\ Cont(b2) /\ Cont(b3) THEN 4 ELSE 0
          [] b0 = 244 ->
                IF b1 >= 128 /\ b1 <= 143 /\ Cont(b2) /\ Cont(b3)
                THEN 4 ELSE 0
          [] OTHER -> 0

\* String::from_utf8(..).ok() is Some: the bytes from place i on are
\* well-formed UTF-8.
RECURSIVE from_utf8_ok(_, _)
from_utf8_ok(bytes, i) ==
    IF i > Len(bytes) THEN TRUE
    ELSE IF Utf8Width(bytes, i) = 0 THEN FALSE
    ELSE from_utf8_ok(bytes, i + Utf8Width(bytes, i))

\* The bytes "id:".
IdPrefix == <<105, 100, 58>>

\* slice::starts_with.
starts_with(value, prefix) ==
    Len(value) >= Len(prefix) /\ SubSeq(value, 1, Len(prefix)) = prefix

\* An Option of bytes.
SomeBytes(b) == [some |-> TRUE, value |-> b]
NoBytes == [some |-> FALSE, value |-> <<>>]

\* An extract_receipted_message_id, on bytes, that does not look at the
\* first three bytes.
extract_from_bytes_AnyPrefix(value) ==
    IF Len(value) >= 3
    THEN IF from_utf8_ok(SubSeq(value, 4, Len(value)), 1)
         THEN SomeBytes(SubSeq(value, 4, Len(value)))
         ELSE NoBytes
    ELSE NoBytes

\* DeliverSmPdu::extract_receipted_message_id on the bytes of
\* short_message (extract_receipted_message_id above is the same function
\* on a short_message already split after its third byte).
extract_from_bytes(value) ==
    IF starts_with(value, IdPrefix)
    THEN IF from_utf8_ok(SubSeq(value, 4, Len(value)), 1)
         THEN SomeBytes(SubSeq(value, 4, Len(value)))
         ELSE NoBytes
    ELSE NoBytes

\* The short_message values of the deliver_sm PDUs given to receive_pdu:
\* "id:1", "id:" alone, "id", "hi 1", "ID:1", " id:1", "id:" followed by
\* U+00E9 in UTF-8, by the first byte of that sequence only, and by FF.
ShortMessages ==
    {<<105, 100, 58, 49>>, <<105, 100, 58>>, <<105, 100>>,
     <<104, 105, 32, 49>>, <<73, 68, 58, 49>>, <<32, 105, 100, 58, 49>>,
     <<105, 100, 58, 195, 169>>, <<105, 100, 58, 195>>,
     <<105, 100, 58, 255>>}

\* The byte strings COctetString::read is called on, after those of the
\* tests with "ab" in place of "foobar": with and without the NUL, with
\* bytes after the NUL, with a byte that is not ASCII, and two NULs.
CStrings ==
    {<<97, 98, 0>>, <<97, 98>>, <<97, 98, 0, 99>>, <<97, 98, 99, 0>>,
     <<200, 0>>, <<0, 0>>}

\* The max_len values COctetString::read is called with on them.
MaxLens == {1, 2, 3, 4}

\* The command_length values a frame of n bytes is given in place of its
\* own.
DeclaredLengths(n) ==
    {U32(0), U32(3), U32(4), U32(7), U32(8), U32(n - 1), U32(n),
     U32(n + 1), U32(70000), U32(70001), U32Max}

\* How many bytes of a frame of n bytes and of ExtraBytes the buffer holds.
BufferedLengths(n) ==
    {k \in {0, 3, 4, 7, 8, 15, 16, n - 1, n, n + Len(ExtraBytes)} :
        k <= n + Len(ExtraBytes)}

\* The first k bytes of a frame and of what follows it, with command_length
\* replaced by len where the buffer holds it.
Buffered(frame, k, len) ==
    LET b == SubSeq(frame \o ExtraBytes, 1, k) IN
    IF k < 4 THEN b ELSE to_be_bytes(len) \o SubSeq(b, 5, k)

\* An input of the codec: a PDU to write or a buffer to read, and whether
\* the build checks arithmetic overflow (the debug profile does, the
\* release profile does not).
Input(pdu, bytes, overflow_checks) ==
    [pdu |-> pdu, bytes |-> bytes, overflow_checks |-> overflow_checks]

Inputs ==
    {Input(p, <<>>, oc) : p \in NewArgs, oc \in BOOLEAN}
    \cup UNION {{Input(NoPdu, Buffered(f, k, len), oc) :
                    k \in BufferedLengths(Len(f)),
                    len \in DeclaredLengths(Len(f)), oc \in BOOLEAN} :
                f \in CodecFrames}
    \cup {Input(NoPdu, b, oc) : b \in CStrings, oc \in BOOLEAN}
    \cup {Input(NoPdu, b, oc) : b \in ShortMessages, oc \in BOOLEAN}

NoInput == Input(NoPdu, <<>>, FALSE)

\* What a call of the codec gave: the operation, its result, the PDU it
\* returned, how far the cursor went, and the bytes it left or wrote.
Output(op, result, pdu, position, bytes) ==
    [op |-> op, result |-> result, pdu |-> pdu, position |-> position,
     bytes |-> bytes]

NoOutput == Output("none", "none", NoPdu, 0, <<>>)

\* ------------------------------------------------------------------ state

VARIABLES
    accepted,    \* number of connections listen_loop has accepted
    pc,          \* pc[c]: where the task of connection c stands
    sem,         \* permits available in the semaphore of listen_loop
    cur,         \* cur[c]: the result of read_pdu the session is handling
    resp,        \* resp[c]: the response the session is about to write
    logicResult, \* logicResult[c]: what the Logic returned for cur[c]
    result,      \* result[c]: what process returned for connection c
    halves,      \* halves[c]: SmppConnection.read / .write still hold Some
    wire,        \* wire[c]: frames the client sent that were not read yet
    peerClosed,  \* peerClosed[c]: "open", or how the client closed its socket
    sent,        \* sent[c]: frames the client of c has sent
    outbox,      \* outbox[c]: the PDUs written to the socket of c, in order
    socket,      \* socket[c]: the bytes put on the socket of c, as chunks
    writeLock,   \* writeLock[c]: who holds the mutex SmppConnection.write
    connection,  \* Smsc.connection: the registry
    logicHolder, \* the connection whose session holds the Logic mutex
    msgids,      \* message ids the Logic has handed out
    submitter,   \* submitter[m]: the connection whose submit_sm got id m
    bound,       \* bound[c]: the bind request of c that last succeeded
    logicCalls,  \* the callbacks made: <<connection, "bind" or "submit_sm">>
    writes,      \* write tasks spawned by receive_pdu_for_message
    hostCalls,   \* number of calls of Smsc::receive_pdu
    hostResult,  \* what the last call of Smsc::receive_pdu returned
    input,       \* what the codec is called with
    output,      \* what the call of the codec gave
    env          \* the workload of this run

listenerVars == <<accepted, sem>>
sessionVars == <<pc, cur, resp, logicResult, result>>
socketVars ==
    <<halves, wire, peerClosed, sent, outbox, socket, writeLock>>
logicVars == <<logicHolder, msgids, submitter, logicCalls>>
routerVars == <<connection, bound>>
hostVars == <<writes, hostCalls, hostResult>>
codecVars == <<input, output>>

vars == <<listenerVars, sessionVars, socketVars, logicVars, routerVars,
          hostVars, codecVars, env>>

\* The state after Smsc::start: no connection, all permits available.
Init ==
    /\ env \in Environments
    /\ input = NoInput
    /\ output = NoOutput
    /\ accepted = 0
    /\ pc = [c \in Conns |-> "none"]
    /\ sem = MaxOpenSockets
    /\ cur = [c \in Conns |-> NoPdu]
    /\ resp = [c \in Conns |-> NoResponse]
    /\ logicResult = [c \in Conns |-> "none"]
    /\ result = [c \in Conns |-> "none"]
    /\ halves = [c \in Conns |-> [read |-> FALSE, write |-> FALSE]]
    /\ wire = [c \in Conns |-> <<>>]
    /\ peerClosed = [c \in Conns |-> "open"]
    /\ sent = [c \in Conns |-> 0]
    /\ outbox = [c \in Conns |-> <<>>]
    /\ socket = [c \in Conns |-> <<>>]
    /\ writeLock = [c \in Conns |-> NoWriter]
    /\ connection = None
    /\ logicHolder = None
    /\ msgids = 0
    /\ submitter = <<>>
    /\ bound = [c \in Conns |-> "unbound"]
    /\ logicCalls = {}
    /\ writes = {}
    /\ hostCalls = 0
    /\ hostResult = "none"

\* --------------------------------------------------------------- listener

\* listen_loop: accept the next connection, build its SmppConnection (both
\* halves Some) and spawn process_stream for it.
Accept(c) ==
    /\ c = accepted + 1
    /\ c <= env.conns
    /\ accepted' = c
    /\ pc' = [pc EXCEPT ![c] = "spawned"]
    /\ halves' = [halves EXCEPT ![c] = [read |-> TRUE, write |-> TRUE]]
    /\ UNCHANGED <<sem, cur, resp, logicResult, result, wire, peerClosed, sent,
                   outbox, socket, writeLock>>
    /\ UNCHANGED codecVars
    /\ UNCHANGED <<env, logicVars, routerVars, hostVars>>

\* process_stream, Ok(_guard): try_acquire took a permit; process runs.
Admit(c) ==
    /\ pc[c] = "spawned"
    /\ sem > 0
    /\ sem' = sem - 1
    /\ pc' = [pc EXCEPT ![c] = "read"]
    /\ UNCHANGED <<accepted, cur, resp, logicResult, result>>
    /\ UNCHANGED codecVars
    /\ UNCHANGED <<env, socketVars, logicVars, routerVars, hostVars>>

\* process_stream as it would be if a failed try_acquire did not end the
\* task: process runs without a permit.
Refuse_RunsProcess(c) ==
    /\ pc[c] = "spawned"
    /\ sem = 0
    /\ pc' = [pc EXCEPT ![c] = "read"]
    /\ UNCHANGED <<accepted, sem, cur, resp, logicResult, result>>
    /\ UNCHANGED codecVars
    /\ UNCHANGED <<env, socketVars, logicVars, routerVars, hostVars>>

\* process_stream, Err(NoPermits): the task ends, which drops the
\* SmppConnection and with it the socket.
Refuse(c) ==
    /\ pc[c] = "spawned"
    /\ sem = 0
    /\ pc' = [pc EXCEPT ![c] = "refused"]
    /\ halves' = [halves EXCEPT ![c] = [read |-> FALSE, write |-> FALSE]]
    /\ UNCHANGED <<accepted, sem, cur, resp, logicResult, result>>
    /\ UNCHANGED <<wire, peerClosed, sent, outbox, socket, writeLock>>
    /\ UNCHANGED codecVars
    /\ UNCHANGED <<env, logicVars, routerVars, hostVars>>

\* process_stream: let aqu = sem.try_acquire(); match aqu.
process_stream(c) == Admit(c) \/ Refuse(c)

\* ---------------------------------------------------------------- clients

\* The frames a client may send: each well-formed PDU the session has an
\* arm for, those it has none for, and frames the parser rejects (a
\* bind_transmitter or a submit_sm with a bad field, a bind_transmitter
\* whose command_length is longer than the PDU, a command_id no body parser
\* knows, a command_length below the minimum or above the maximum).
Frames(seq) ==
    {Pdu(ESME_ROK, seq, k, NoBody) :
        k \in BindKinds \cup {"enquire_link", "submit_sm", "generic_nack",
                              "bind_transmitter_resp", "deliver_sm_resp"}}
    \cup {PduParseError(Some(CommandId("bind_transmitter")), Some(seq),
                        "COctetStringNotAscii"),
          PduParseError(Some(CommandId("bind_transmitter")), Some(seq),
                        "LengthLongerThanPdu"),
          PduParseError(Some(CommandId("submit_sm")), Some(seq),
                        "OctetStringCreationError"),
          PduParseError(Some([top |-> 1, low |-> 127]), Some(seq),
                        "UnknownCommandId"),
          PduParseError(Nothing, Nothing, "LengthTooShort"),
          PduParseError(Nothing, Nothing, "LengthTooLong")}

RECURSIVE Sum(_, _)
Sum(f, S) == IF S = {} THEN 0
             ELSE LET x == CHOOSE y \in S : TRUE IN f[x] + Sum(f, S \ {x})

\* The sequence number of the next frame of the client of c: its frames
\* are numbered from 2 on.
NextSeq(c) == sent[c] + 2

\* The client of c writes one frame to its socket.
ClientSend(c, f) ==
    /\ pc[c] \notin {"none", "disconnected", "closed"}
    /\ peerClosed[c] = "open"
    /\ Sum(sent, Conns) < env.frames
    /\ f \in Frames(NextSeq(c))
    /\ FrameTag(f) \in env.tags
    /\ wire' = [wire EXCEPT ![c] = Append(@, f)]
    /\ sent' = [sent EXCEPT ![c] = @ + 1]
    /\ UNCHANGED <<halves, peerClosed, outbox, socket, writeLock>>
    /\ UNCHANGED codecVars
    /\ UNCHANGED <<env, listenerVars, sessionVars, logicVars, routerVars, hostVars>>

\* The client of c closes its socket, after a whole PDU ("eof") or in the
\* middle of one ("eof_mid_pdu").
ClientClose(c, how) ==
    /\ pc[c] # "none"
    /\ peerClosed[c] = "open"
    /\ how \in env.closes
    /\ peerClosed' = [peerClosed EXCEPT ![c] = how]
    /\ UNCHANGED <<halves, wire, sent, outbox, socket, writeLock>>
    /\ UNCHANGED codecVars
    /\ UNCHANGED <<env, listenerVars, sessionVars, logicVars, routerVars, hostVars>>

\* ---------------------------------------------------------- SmppConnection

\* A read_pdu that reports every EOF as closed by peer, whatever is left
\* in the receive buffer.
read_pdu_ClosedAtAnyEof(c) ==
    IF ~halves[c].read THEN PduParseError(Nothing, Nothing, "NotEnoughBytes")
    ELSE IF wire[c] # <<>> THEN Head(wire[c])
    ELSE IF peerClosed[c] \in {"eof", "eof_mid_pdu"} THEN [kind |-> "closed"]
    ELSE [kind |-> "pending"]

\* A read_pdu that takes the frame that arrived last instead of the one at
\* the front of the receive buffer.
read_pdu_NewestFirst(c) ==
    IF ~halves[c].read THEN PduParseError(Nothing, Nothing, "NotEnoughBytes")
    ELSE IF wire[c] # <<>> THEN wire[c][Len(wire[c])]
    ELSE IF peerClosed[c] = "eof" THEN [kind |-> "closed"]
    ELSE IF peerClosed[c] = "eof_mid_pdu"
         THEN PduParseError(Nothing, Nothing, "NotEnoughBytes")
    ELSE [kind |-> "pending"]

\* SmppConnection::read_pdu on the frames buffered and the state of the
\* socket: the next PDU, the parse error of the next frame, "closed" for
\* Ok(None) at EOF with an empty buffer, NotEnoughBytes at EOF inside a PDU
\* or when the read half was taken, "pending" while it awaits more bytes.
read_pdu(c) ==
    IF ~halves[c].read THEN PduParseError(Nothing, Nothing, "NotEnoughBytes")
    ELSE IF wire[c] # <<>> THEN Head(wire[c])
    ELSE IF peerClosed[c] = "eof" THEN [kind |-> "closed"]
    ELSE IF peerClosed[c] = "eof_mid_pdu"
         THEN PduParseError(Nothing, Nothing, "NotEnoughBytes")
    ELSE [kind |-> "pending"]

\* SmppConnection::write_pdu: the results it can have. The write fails with
\* BrokenPipe when the write half was taken; a write to a socket the peer
\* has closed may fail as well.
write_pdu(c) ==
    IF ~halves[c].write THEN {"BrokenPipe"}
    ELSE IF peerClosed[c] # "open" THEN {"Ok", "IoError"}
    ELSE {"Ok"}

\* Pdu::write puts a PDU on the stream in two writes: command_length, then
\* the buffer buf that holds the rest of the PDU. A chunk is what one of
\* the two put on the socket: "command_length", "buf" for the whole of
\* buf, "buf_short" for a leading part of it.
Chunk(pdu, part) == [of |-> pdu, part |-> part]

\* Pdu::write, stream.write(&buf): what one call of write puts on the
\* socket of c. It takes the whole of buf, or as much of it as the send
\* buffer of the socket has room for.
stream_write(c) == IF env.slow THEN {"buf", "buf_short"} ELSE {"buf"}

\* ------------------------------------------------------------------ Logic

\* What SmscLogic::bind and SmscLogic::submit_sm can return.
BindResults == {"Ok", "IncorrectPassword", "InternalError"}
SubmitSmResults == {"Ok", "InternalError"}

\* impl From<BindError> for PduStatus.
BindErrorStatus(e) ==
    CASE e = "IncorrectPassword" -> ESME_RINVPASWD
      [] e = "InternalError" -> ESME_RSYSERR

\* impl From<SubmitSmError> for PduStatus.
SubmitSmErrorStatus(e) ==
    CASE e = "InternalError" -> ESME_RSYSERR

\* ---------------------------------------------------------------- handlers

\* A handle_bind_pdu that answers every bind as handle_pdu_parse_error does,
\* with a bind_transmitter_resp.
BindRespKind_AlwaysTransmitter(kind) == "bind_transmitter_resp"

\* The response body handle_bind_pdu pairs with each bind request.
BindRespKind(kind) ==
    CASE kind = "bind_receiver" -> "bind_receiver_resp"
      [] kind = "bind_transceiver" -> "bind_transceiver_resp"
      [] kind = "bind_transmitter" -> "bind_transmitter_resp"

\* handle_bind_pdu, from the result of Logic.bind to the Pdu it returns:
\* the response carrying system_id on Ok, a header-only response with the
\* status of the error otherwise.
BindResponse(pdu, res) ==
    IF res = "Ok"
    THEN Pdu(ESME_ROK, pdu.sequence_number, BindRespKind(pdu.kind),
             <<SystemId>>)
    ELSE Pdu(BindErrorStatus(res), pdu.sequence_number,
             BindRespKind(pdu.kind), NoBody)

\* A SubmitSm arm that leaves command_status as it was initialised when
\* Logic.submit_sm returns an error.
SubmitSmResponse_StatusStaysOk(pdu, res, message_id) ==
    IF res = "Ok"
    THEN Pdu(ESME_ROK, pdu.sequence_number, "submit_sm_resp", <<message_id>>)
    ELSE Pdu(ESME_ROK, pdu.sequence_number, "submit_sm_resp", NoBody)

\* handle_pdu, SubmitSm arm, from the res of Logic.submit_sm to the Pdu
\* it returns; message_id is the id the Logic chose.
SubmitSmResponse(pdu, res, message_id) ==
    IF res = "Ok"
    THEN Pdu(ESME_ROK, pdu.sequence_number, "submit_sm_resp", <<message_id>>)
    ELSE Pdu(SubmitSmErrorStatus(res), pdu.sequence_number,
             "submit_sm_resp", NoBody)

\* A handle_pdu that answers an enquire_link with a sequence_number of its
\* own instead of the one of the request.
EnquireLinkResponse_OwnSequence(pdu) ==
    Pdu(ESME_ROK, 1, "enquire_link_resp", NoBody)

\* handle_pdu, EnquireLink arm.
EnquireLinkResponse(pdu) ==
    Pdu(ESME_ROK, pdu.sequence_number, "enquire_link_resp", NoBody)

\* A process_loop that nacks a PDU it has no handler for with the status
\* of a system error.
UnexpectedPduResponse_SysErr(pdu) ==
    Pdu(ESME_RSYSERR, pdu.sequence_number, "generic_nack", NoBody)

\* process_loop, Err(e) of handle_pdu: the generic_nack it writes.
UnexpectedPduResponse(pdu) ==
    Pdu(ESME_RINVCMDID, pdu.sequence_number, "generic_nack", NoBody)

\* A handle_pdu_parse_error that answers every parse error with the status
\* of a system error.
handle_pdu_parse_error_AlwaysSysErr(error) ==
    LET sequence_number == unwrap_or(error.sequence_number, 1) IN
    IF error.command_id = Some(CommandId("bind_transmitter"))
    THEN Pdu(ESME_RSYSERR, sequence_number, "bind_transmitter_resp", NoBody)
    ELSE Pdu(ESME_RSYSERR, sequence_number, "generic_nack", NoBody)

\* handle_pdu_parse_error: the response to a PduParseError.
handle_pdu_parse_error(error) ==
    LET sequence_number == unwrap_or(error.sequence_number, 1) IN
    IF error.command_id = Some(CommandId("bind_transmitter"))
    THEN Pdu(status(error), sequence_number, "bind_transmitter_resp", NoBody)
    ELSE Pdu(status(error), sequence_number, "generic_nack", NoBody)

\* A handle_pdu that takes a submit_sm only from a connection bound as
\* transmitter or transceiver and leaves it to the default arm otherwise.
handle_pdu_arm_RequiresBind(pdu, c) ==
    CASE pdu.kind \in BindKinds -> "Bind"
      [] pdu.kind = "enquire_link" -> "EnquireLink"
      [] pdu.kind = "submit_sm"
         /\ bound[c] \in {"bind_transmitter", "bind_transceiver"} -> "SubmitSm"
      [] OTHER -> "_"

\* handle_pdu: the arm of its match that takes the PDU read on connection
\* c; "_" is the default arm.
handle_pdu_arm(pdu, c) ==
    CASE pdu.kind \in BindKinds -> "Bind"
      [] pdu.kind = "enquire_link" -> "EnquireLink"
      [] pdu.kind = "submit_sm" -> "SubmitSm"
      [] OTHER -> "_"

\* A handle_bind_pdu that registers the connection whatever the status.
Registers_Always(pdu) == TRUE

\* handle_bind_pdu: the connection is registered when the status is ESME_ROK.
Registers(pdu) == pdu.command_status = ESME_ROK

\* Smsc::add_connection: the registry after connection c was added to it.
add_connection(registry, c) == c

\* Smsc::connection_for_message_id: the connection the registry gives for a
\* message id, None when it gives none.
connection_for_message_id(registry, message_id) == registry

\* ----------------------------------------------------------------- session

\* A process_loop that answers a parse error, drops the bad frame and goes
\* on reading instead of returning the error.
ReadPdu_GoesOnAfterError(c) ==
    /\ pc[c] = "read"
    /\ LET r == read_pdu(c) IN
       /\ r.kind # "pending"
       /\ CASE r.kind = "closed" ->
                 /\ pc' = [pc EXCEPT ![c] = "closing"]
                 /\ result' = [result EXCEPT ![c] = "ClosedByPeer"]
                 /\ UNCHANGED <<cur, resp, wire>>
            [] r.kind = "error" ->
                 /\ pc' = [pc EXCEPT ![c] = "write"]
                 /\ resp' = [resp EXCEPT ![c] =
                        Response(handle_pdu_parse_error(r), "continue")]
                 /\ wire' = [wire EXCEPT ![c] =
                        IF @ = <<>> THEN @ ELSE Tail(@)]
                 /\ UNCHANGED <<cur, result>>
            [] OTHER ->
                 /\ pc' = [pc EXCEPT ![c] = "handle"]
                 /\ cur' = [cur EXCEPT ![c] = r]
                 /\ wire' = [wire EXCEPT ![c] = Tail(@)]
                 /\ UNCHANGED <<resp, result>>
    /\ UNCHANGED logicResult
    /\ UNCHANGED <<halves, peerClosed, sent, outbox, socket, writeLock>>
    /\ UNCHANGED codecVars
    /\ UNCHANGED <<env, listenerVars, logicVars, routerVars, hostVars>>

\* process_loop: read_pdu returned. Ok(None) returns from the loop, a parse
\* error is answered and then returned, a PDU goes to handle_pdu. A PDU
\* that parsed is taken out of the receive buffer.
ReadPdu(c) ==
    /\ pc[c] = "read"
    /\ LET r == read_pdu(c) IN
       /\ r.kind # "pending"
       /\ CASE r.kind = "closed" ->
                 /\ pc' = [pc EXCEPT ![c] = "closing"]
                 /\ result' = [result EXCEPT ![c] = "ClosedByPeer"]
                 /\ UNCHANGED <<cur, resp, wire>>
            [] r.kind = "error" ->
                 /\ pc' = [pc EXCEPT ![c] = "write"]
                 /\ resp' = [resp EXCEPT ![c] =
                        Response(handle_pdu_parse_error(r), "PduParseError")]
                 /\ UNCHANGED <<cur, wire, result>>
            [] OTHER ->
                 /\ pc' = [pc EXCEPT ![c] = "handle"]
                 /\ cur' = [cur EXCEPT ![c] = r]
                 /\ wire' = [wire EXCEPT ![c] = Tail(@)]
                 /\ UNCHANGED <<resp, result>>
    /\ UNCHANGED logicResult
    /\ UNCHANGED <<halves, peerClosed, sent, outbox, socket, writeLock>>
    /\ UNCHANGED codecVars
    /\ UNCHANGED <<env, listenerVars, logicVars, routerVars, hostVars>>

\* handle_pdu, the arms that do not call the Logic: enquire_link is
\* answered; any other PDU is an UnexpectedPduType error, for which
\* process_loop writes a generic_nack and returns.
HandlePdu(c) ==
    /\ pc[c] = "handle"
    /\ handle_pdu_arm(cur[c], c) \in {"EnquireLink", "_"}
    /\ resp' = [resp EXCEPT ![c] =
          IF handle_pdu_arm(cur[c], c) = "EnquireLink"
          THEN Response(EnquireLinkResponse(cur[c]), "continue")
          ELSE Response(UnexpectedPduResponse(cur[c]), "UnexpectedPduType")]
    /\ pc' = [pc EXCEPT ![c] = "write"]
    /\ UNCHANGED <<cur, logicResult, result>>
    /\ UNCHANGED codecVars
    /\ UNCHANGED <<env, listenerVars, socketVars, logicVars, routerVars,
                   hostVars>>

\* A session that calls the Logic without waiting for its mutex.
LockLogic_NoMutex(c) ==
    /\ pc[c] = "handle"
    /\ handle_pdu_arm(cur[c], c) \in {"Bind", "SubmitSm"}
    /\ logicHolder' = c
    /\ pc' = [pc EXCEPT ![c] = "logic"]
    /\ UNCHANGED <<cur, resp, logicResult, result, msgids, submitter,
                   logicCalls>>
    /\ UNCHANGED codecVars
    /\ UNCHANGED <<env, listenerVars, socketVars, routerVars, hostVars>>

\* handle_bind_pdu and handle_pdu, SubmitSm arm: smsc_logic.lock().await.
LockLogic(c) ==
    /\ pc[c] = "handle"
    /\ handle_pdu_arm(cur[c], c) \in {"Bind", "SubmitSm"}
    /\ logicHolder = None
    /\ logicHolder' = c
    /\ pc' = [pc EXCEPT ![c] = "logic"]
    /\ UNCHANGED <<cur, resp, logicResult, result, msgids, submitter,
                   logicCalls>>
    /\ UNCHANGED codecVars
    /\ UNCHANGED <<env, listenerVars, socketVars, routerVars, hostVars>>

\* A handle_bind_pdu whose guard of the Logic mutex lives on after the
\* match: the mutex is still held when the response is written.
LogicBind_KeepsLock(c, r) ==
    /\ pc[c] = "logic"
    /\ handle_pdu_arm(cur[c], c) = "Bind"
    /\ r \in BindResults \cap env.bind
    /\ logicResult' = [logicResult EXCEPT ![c] = r]
    /\ logicCalls' = logicCalls \cup {<<c, "bind">>}
    /\ LET pdu == BindResponse(cur[c], r) IN
       /\ resp' = [resp EXCEPT ![c] = Response(pdu, "continue")]
       /\ pc' = [pc EXCEPT
              ![c] = IF Registers(pdu) THEN "register" ELSE "write"]
    /\ UNCHANGED <<cur, result, msgids, submitter, logicHolder>>
    /\ UNCHANGED codecVars
    /\ UNCHANGED <<env, listenerVars, socketVars, routerVars, hostVars>>

\* handle_bind_pdu: Logic.bind returned; the Logic mutex is released and
\* the response is built.
LogicBind(c, r) ==
    /\ pc[c] = "logic"
    /\ handle_pdu_arm(cur[c], c) = "Bind"
    /\ r \in BindResults \cap env.bind
    /\ logicHolder' = None
    /\ logicResult' = [logicResult EXCEPT ![c] = r]
    /\ logicCalls' = logicCalls \cup {<<c, "bind">>}
    /\ LET pdu == BindResponse(cur[c], r) IN
       /\ resp' = [resp EXCEPT ![c] = Response(pdu, "continue")]
       /\ pc' = [pc EXCEPT
              ![c] = IF Registers(pdu) THEN "register" ELSE "write"]
    /\ UNCHANGED <<cur, result, msgids, submitter>>
    /\ UNCHANGED codecVars
    /\ UNCHANGED <<env, listenerVars, socketVars, routerVars, hostVars>>

\* handle_pdu, SubmitSm arm: Logic.submit_sm returned, with a fresh message
\* id when it accepted the message; the Logic mutex is released and the
\* response is built.
LogicSubmitSm(c, r) ==
    /\ pc[c] = "logic"
    /\ handle_pdu_arm(cur[c], c) = "SubmitSm"
    /\ r \in SubmitSmResults \cap env.submit_sm
    /\ logicHolder' = None
    /\ logicResult' = [logicResult EXCEPT ![c] = r]
    /\ logicCalls' = logicCalls \cup {<<c, "submit_sm">>}
    /\ IF r = "Ok"
       THEN /\ msgids' = msgids + 1
            /\ submitter' = Append(submitter, c)
       ELSE UNCHANGED <<msgids, submitter>>
    /\ resp' = [resp EXCEPT ![c] =
          Response(SubmitSmResponse(cur[c], r, msgids + 1), "continue")]
    /\ pc' = [pc EXCEPT ![c] = "write"]
    /\ UNCHANGED <<cur, result>>
    /\ UNCHANGED codecVars
    /\ UNCHANGED <<env, listenerVars, socketVars, routerVars, hostVars>>

\* handle_bind_pdu: smsc.lock().await.add_connection(connection), after a
\* bind the Logic accepted.
Register(c) ==
    /\ pc[c] = "register"
    /\ connection' = add_connection(connection, c)
    /\ bound' = [bound EXCEPT ![c] = cur[c].kind]
    /\ pc' = [pc EXCEPT ![c] = "write"]
    /\ UNCHANGED <<cur, resp, logicResult, result>>
    /\ UNCHANGED codecVars
    /\ UNCHANGED <<env, listenerVars, socketVars, logicVars, hostVars>>

\* SmppConnection::write_pdu called by process_loop, up to the first write
\* of Pdu::write: the session takes the mutex of the write half and writes
\* command_length. When the write half is gone or the write fails,
\* write_pdu returns the error and process_loop returns it.
WriteLength(c, r) ==
    /\ pc[c] = "write"
    /\ writeLock[c] = NoWriter
    /\ r \in write_pdu(c)
    /\ IF r = "Ok"
       THEN /\ writeLock' = [writeLock EXCEPT ![c] = SessionWriter]
            /\ socket' = [socket EXCEPT ![c] =
                   Append(@, Chunk(resp[c].pdu, "command_length"))]
            /\ UNCHANGED <<pc, cur, resp, logicResult, result>>
       ELSE /\ pc' = [pc EXCEPT ![c] = "closing"]
            /\ result' = [result EXCEPT ![c] = "IoError"]
            /\ cur' = [cur EXCEPT ![c] = NoPdu]
            /\ resp' = [resp EXCEPT ![c] = NoResponse]
            /\ logicResult' = [logicResult EXCEPT ![c] = "none"]
            /\ UNCHANGED <<socket, writeLock>>
    /\ UNCHANGED <<halves, wire, peerClosed, sent, outbox>>
    /\ UNCHANGED codecVars
    /\ UNCHANGED <<env, listenerVars, logicVars, routerVars, hostVars>>

\* process_loop: connection.write_pdu(&response).await?, from the second
\* write of Pdu::write on: buf is written and the mutex released. After a
\* write that succeeded the loop goes on or returns the error it
\* answered; a write that failed returns the I/O error.
WritePdu(c, r) ==
    /\ pc[c] = "write"
    /\ writeLock[c] = SessionWriter
    /\ r \in write_pdu(c)
    /\ writeLock' = [writeLock EXCEPT ![c] = NoWriter]
    /\ IF r = "Ok"
       THEN /\ outbox' = [outbox EXCEPT ![c] = Append(@, resp[c].pdu)]
            /\ \E part \in stream_write(c) :
                  socket' = [socket EXCEPT ![c] =
                                Append(@, Chunk(resp[c].pdu, part))]
            /\ IF resp[c].then = "continue"
               THEN /\ pc' = [pc EXCEPT ![c] = "read"]
                    /\ UNCHANGED result
               ELSE /\ pc' = [pc EXCEPT ![c] = "closing"]
                    /\ result' = [result EXCEPT ![c] = resp[c].then]
       ELSE /\ pc' = [pc EXCEPT ![c] = "closing"]
            /\ result' = [result EXCEPT ![c] = "IoError"]
            /\ UNCHANGED <<outbox, socket>>
    /\ cur' = [cur EXCEPT ![c] = NoPdu]
    /\ resp' = [resp EXCEPT ![c] = NoResponse]
    /\ logicResult' = [logicResult EXCEPT ![c] = "none"]
    /\ UNCHANGED <<halves, wire, peerClosed, sent>>
    /\ UNCHANGED codecVars
    /\ UNCHANGED <<env, listenerVars, logicVars, routerVars, hostVars>>

\* process: process_loop returned, DisconnectGuard is dropped and
\* SmppConnection::disconnect takes both halves, each under its mutex.
Disconnect(c) ==
    /\ pc[c] = "closing"
    /\ writeLock[c] = NoWriter
    /\ halves' = [halves EXCEPT ![c] = [read |-> FALSE, write |-> FALSE]]
    /\ pc' = [pc EXCEPT ![c] = "disconnected"]
    /\ UNCHANGED <<cur, resp, logicResult, result, wire, peerClosed, sent,
                   outbox, socket, writeLock>>
    /\ UNCHANGED codecVars
    /\ UNCHANGED <<env, listenerVars, logicVars, routerVars, hostVars>>

\* process_stream as it would be if the permit were forgotten instead of
\* dropped.
Release_KeepsPermit(c) ==
    /\ pc[c] = "disconnected"
    /\ pc' = [pc EXCEPT ![c] = "closed"]
    /\ UNCHANGED <<accepted, sem, cur, resp, logicResult, result>>
    /\ UNCHANGED codecVars
    /\ UNCHANGED <<env, socketVars, logicVars, routerVars, hostVars>>

\* process_stream: process returned, the result is logged and _guard is
\* dropped, which gives the permit back.
Release(c) ==
    /\ pc[c] = "disconnected"
    /\ sem' = sem + 1
    /\ pc' = [pc EXCEPT ![c] = "closed"]
    /\ UNCHANGED <<accepted, cur, resp, logicResult, result>>
    /\ UNCHANGED codecVars
    /\ UNCHANGED <<env, socketVars, logicVars, routerVars, hostVars>>

\* ------------------------------------------------------------------- host

\* The PDUs the host passes to Smsc::receive_pdu: a delivery receipt for a
\* message id the Logic has handed out or for the next one (which it has
\* not), a deliver_sm that is no receipt (its text does not start with
\* "id:"), one whose bytes after "id:" are not UTF-8, and a PDU that is no
\* deliver_sm.
HostPdus(seq) ==
    {Pdu(ESME_ROK, seq, "deliver_sm", Receipt(m)) : m \in 1..(msgids + 1)}
    \cup {Pdu(ESME_ROK, seq, "deliver_sm", ShortMessage("hi ", 1)),
          Pdu(ESME_ROK, seq, "deliver_sm", ShortMessage("id:", NotUtf8)),
          Pdu(ESME_ROK, seq, "submit_sm", NoBody)}

\* Smsc::receive_pdu with receive_pdu_for_message, under the lock on Smsc
\* the caller holds: a deliver_sm that yields a message id is handed to a
\* newly spawned task that writes it to the connection the registry gives.
receive_pdu(pdu) ==
    /\ hostCalls < env.host
    /\ pdu \in HostPdus(100 + hostCalls)
    /\ hostCalls' = hostCalls + 1
    /\ IF pdu.kind # "deliver_sm"
       THEN /\ hostResult' = "UnexpectedPduType"
            /\ UNCHANGED writes
       ELSE LET message_id == extract_receipted_message_id(pdu.body) IN
            IF message_id = None
            THEN /\ hostResult' = "NoMessageId"
                 /\ UNCHANGED writes
            ELSE LET conn == connection_for_message_id(connection, message_id)
                 IN IF conn = None
                    THEN /\ hostResult' = "NoConnection"
                         /\ UNCHANGED writes
                    ELSE /\ hostResult' = "Ok"
                         /\ writes' = writes \cup
                              {[conn |-> conn, pdu |-> pdu]}
    /\ UNCHANGED codecVars
    /\ UNCHANGED <<env, listenerVars, sessionVars, socketVars, logicVars,
                   routerVars>>

\* The task spawned by receive_pdu_for_message, conn.write_pdu(&pdu) up to
\* the first write of Pdu::write: the task takes the mutex of the write
\* half and writes command_length; a failure is logged and ends the task.
SpawnedWriteLength(w, r) ==
    /\ w \in writes
    /\ writeLock[w.conn] = NoWriter
    /\ r \in write_pdu(w.conn)
    /\ IF r = "Ok"
       THEN /\ writeLock' = [writeLock EXCEPT ![w.conn] = RouterWriter(w.pdu)]
            /\ socket' = [socket EXCEPT ![w.conn] =
                   Append(@, Chunk(w.pdu, "command_length"))]
            /\ UNCHANGED writes
       ELSE /\ writes' = writes \ {w}
            /\ UNCHANGED <<socket, writeLock>>
    /\ UNCHANGED <<halves, wire, peerClosed, sent, outbox, hostCalls,
                   hostResult>>
    /\ UNCHANGED codecVars
    /\ UNCHANGED <<env, listenerVars, sessionVars, logicVars, routerVars>>

\* The task spawned by receive_pdu_for_message, from the second write of
\* Pdu::write on: buf is written, the mutex released and the task ends; a
\* failure is logged.
SpawnedWrite(w, r) ==
    /\ w \in writes
    /\ writeLock[w.conn] = RouterWriter(w.pdu)
    /\ r \in write_pdu(w.conn)
    /\ writes' = writes \ {w}
    /\ writeLock' = [writeLock EXCEPT ![w.conn] = NoWriter]
    /\ IF r = "Ok"
       THEN /\ outbox' = [outbox EXCEPT ![w.conn] = Append(@, w.pdu)]
            /\ \E part \in stream_write(w.conn) :
                  socket' = [socket EXCEPT ![w.conn] =
                                Append(@, Chunk(w.pdu, part))]
       ELSE UNCHANGED <<outbox, socket>>
    /\ UNCHANGED <<halves, wire, peerClosed, sent, hostCalls, hostResult>>
    /\ UNCHANGED codecVars
    /\ UNCHANGED <<env, listenerVars, sessionVars, logicVars, routerVars>>

\* ----------------------------------------------------------------- claims

\* The positions of a task that holds a permit: from try_acquire to the drop
\* of _guard.
SessionPcs ==
    {"read", "handle", "logic", "register", "write", "closing",
     "disconnected"}

Running == {c \in Conns : pc[c] \in SessionPcs}

\* The receipts the host may pass in the current state.
HostReceipts ==
    {p \in HostPdus(100 + hostCalls) :
        p.kind = "deliver_sm" /\ extract_receipted_message_id(p.body) # None}

\* Connection c has been sent the successful submit_sm_resp for message m.
GotSubmitSmResp(c, m) ==
    \E i \in 1..Len(outbox[c]) :
        /\ outbox[c][i].kind = "submit_sm_resp"
        /\ outbox[c][i].command_status = ESME_ROK
        /\ outbox[c][i].body = <<m>>

\* C1: for any number of bound connections, once a submit_sm on connection
\* C has succeeded with message id m, a receive_pdu of a deliver_sm whose
\* short_message is "id:" followed by m hands that PDU to exactly one write
\* task, on C, and to none on any other connection.
C1_ReceiptGoesToSubmitter ==
    [][\A p \in HostReceipts :
         LET m == extract_receipted_message_id(p.body) IN
         (/\ receive_pdu(p)
          /\ m \in 1..msgids
          /\ bound[submitter[m]] # "unbound"
          /\ pc[submitter[m]] \in SessionPcs \ {"closing", "disconnected"}
          /\ GotSubmitSmResp(submitter[m], m))
         => writes' = writes \cup {[conn |-> submitter[m], pdu |-> p]}]_vars

\* C2: the client of C never holds the successful submit_sm_resp for key k
\* while the registry has no entry mapping k to C: at the moment the
\* response is written the registry gives C for k.
C2_RegisteredWhenAnswered ==
    [][\A c \in Conns :
         (/\ WritePdu(c, "Ok")
          /\ resp[c].pdu.kind = "submit_sm_resp"
          /\ resp[c].pdu.command_status = ESME_ROK)
         => connection_for_message_id(connection', resp[c].pdu.body[1]) = c
      ]_vars

\* C3: every connection the registry refers to is Bound: it has completed
\* a successful bind and has not been disconnected.
C3_RegistryHoldsBoundOnly ==
    connection # None =>
        /\ bound[connection] # "unbound"
        /\ halves[connection].read
        /\ halves[connection].write

\* C4: once the session of a connection has ended the registry no longer
\* refers to it, and a receive_pdu for a message submitted on it returns
\* an error and spawns no write.
C4_EndedSessionIsUnregistered ==
    [][/\ \A c \in Conns : pc'[c] = "closed" => connection' # c
       /\ \A p \in HostReceipts :
            LET m == extract_receipted_message_id(p.body) IN
            (/\ receive_pdu(p)
             /\ m \in 1..msgids
             /\ pc[submitter[m]] = "closed")
            => (hostResult' # "Ok" /\ writes' = writes)]_vars

\* C5: at most max_open_sockets sessions run at any moment, and a
\* connection whose try_acquire failed was closed with nothing written to
\* it, nothing read from it, no Logic callback made for it and the registry
\* not referring to it.
C5_AdmissionControl ==
    /\ Cardinality(Running) <= MaxOpenSockets
    /\ \A c \in Conns :
         pc[c] = "refused" =>
            /\ outbox[c] = <<>>
            /\ Len(wire[c]) = sent[c]
            /\ ~halves[c].read /\ ~halves[c].write
            /\ \A op \in {"bind", "submit_sm"} : <<c, op>> \notin logicCalls
            /\ connection # c
            /\ bound[c] = "unbound"
            /\ result[c] = "none"

\* A connection was refused while max_open_sockets sessions were running,
\* and the bytes its client sent are still unread.
C5_Witness ==
    \E c \in Conns :
        /\ pc[c] = "refused"
        /\ wire[c] # <<>>
        /\ Cardinality(Running) = MaxOpenSockets

\* C6: with max_open_sockets = N and N+1 connections accepted in the order
\* c1..cN+1 that all stay open, the connection refused is cN+1 under every
\* interleaving of the tasks spawned for them.
C6_LastAcceptedIsRefused ==
    \A c \in Conns :
        (/\ pc[c] = "refused"
         /\ accepted = MaxOpenSockets + 1
         /\ \A d \in Conns : peerClosed[d] = "open")
        => c = MaxOpenSockets + 1

\* C7: the permits available plus the sessions running make
\* max_open_sockets in every state, whichever way sessions have ended.
C7_PermitsAccountedFor ==
    sem + Cardinality(Running) = MaxOpenSockets

\* Sessions have ended by a peer close inside a PDU and by a parse error or
\* an unexpected PDU, and a connection accepted after them was admitted
\* although all permits had been taken before.
C7_Witness ==
    /\ \E c \in Conns : pc[c] = "closed" /\ result[c] = "PduParseError"
                        /\ peerClosed[c] = "eof_mid_pdu"
    /\ \E c \in Conns : pc[c] = "closed"
                        /\ result[c] \in {"UnexpectedPduType", "PduParseError"}
                        /\ peerClosed[c] = "open"
    /\ pc[MaxOpenSockets + 1] \in SessionPcs

IsBindOkResponse(r, pdu) ==
    /\ CommandId(r.kind) = [top |-> 1, low |-> CommandId(pdu.kind).low]
    /\ r.command_status = ESME_ROK
    /\ r.sequence_number = pdu.sequence_number
    /\ r.body = <<SystemId>>

\* C9: when Logic.bind returns Ok for a bind_transmitter, bind_receiver or
\* bind_transceiver, the session builds the response of the same kind with
\* status 0, the sequence_number of the request and the configured
\* system_id, registers the connection with the router, writes that
\* response and goes on reading.
C9_BindOk ==
    [][\A c \in Conns :
         /\ (pc[c] = "logic" /\ cur[c].kind \in BindKinds
             /\ logicResult'[c] = "Ok")
            => /\ pc'[c] = "register"
               /\ resp'[c].then = "continue"
               /\ IsBindOkResponse(resp'[c].pdu, cur[c])
         /\ (pc[c] = "register" /\ pc'[c] # "register")
            => /\ connection' = c
               /\ pc'[c] = "write"
               /\ resp'[c] = resp[c]
         /\ (pc[c] = "write" /\ cur[c].kind \in BindKinds
             /\ logicResult[c] = "Ok" /\ pc'[c] # "write")
            => \/ /\ outbox'[c] = Append(outbox[c], resp[c].pdu)
                  /\ IsBindOkResponse(resp[c].pdu, cur[c])
                  /\ pc'[c] = "read"
               \/ /\ peerClosed[c] # "open"
                  /\ outbox'[c] = outbox[c]
                  /\ result'[c] = "IoError"
      ]_vars

\* A bind_receiver was accepted: its response is on the wire, the registry
\* refers to the connection and the session is reading again.
C9_Witness ==
    \E c \in Conns :
        /\ pc[c] = "read"
        /\ connection = c
        /\ bound[c] = "bind_receiver"
        /\ outbox[c] # <<>>
        /\ outbox[c][Len(outbox[c])] =
              Pdu(ESME_ROK, 2, "bind_receiver_resp", <<SystemId>>)

\* The response handle_bind_pdu owes to bind request pdu when the Logic
\* refused it with error e: header-only, of the same operation, with the
\* status of the error and the sequence_number of the request.
IsBindErrorResponse(r, pdu, e) ==
    /\ CommandId(r.kind) = [top |-> 1, low |-> CommandId(pdu.kind).low]
    /\ r.command_status = (IF e = "IncorrectPassword" THEN 14 ELSE 8)
    /\ r.sequence_number = pdu.sequence_number
    /\ r.body = NoBody

\* C10: when Logic.bind returns an error the session builds a header-only
\* bind response of the matching kind with status ESME_RINVPASWD (0x0E) for
\* IncorrectPassword and ESME_RSYSERR (0x08) for InternalError and the
\* sequence_number of the request; it does not register the connection,
\* whose bind state stays what it was, writes the response and goes on
\* reading.
C10_BindError ==
    [][\A c \in Conns :
         /\ (pc[c] = "logic" /\ cur[c].kind \in BindKinds
             /\ logicResult'[c] \in {"IncorrectPassword", "InternalError"})
            => /\ pc'[c] = "write"
               /\ resp'[c].then = "continue"
               /\ IsBindErrorResponse(resp'[c].pdu, cur[c], logicResult'[c])
               /\ connection' = connection
               /\ bound' = bound
         /\ (pc[c] = "write" /\ cur[c].kind \in BindKinds
             /\ logicResult[c] \in {"IncorrectPassword", "InternalError"}
             /\ pc'[c] # "write")
            => /\ connection' = connection
               /\ bound' = bound
               /\ \/ /\ outbox'[c] = Append(outbox[c], resp[c].pdu)
                     /\ IsBindErrorResponse(resp[c].pdu, cur[c],
                                            logicResult[c])
                     /\ pc'[c] = "read"
                     /\ halves'[c].read /\ halves'[c].write
                  \/ /\ peerClosed[c] # "open"
                     /\ outbox'[c] = outbox[c]
                     /\ result'[c] = "IoError"
      ]_vars

\* Both errors were answered on one connection, which is still unbound,
\* unregistered, open and reading.
C10_Witness ==
    \E c \in Conns :
        /\ pc[c] = "read"
        /\ bound[c] = "unbound"
        /\ connection # c
        /\ halves[c].read /\ halves[c].write
        /\ outbox[c] = <<Pdu(14, 2, "bind_transceiver_resp", NoBody),
                         Pdu(8, 3, "bind_receiver_resp", NoBody)>>

\* The PDUs the session of c has written: what is on its socket without
\* the deliver_sm PDUs of the router.
SessionResponses(c) ==
    SelectSeq(outbox[c], LAMBDA p : p.kind # "deliver_sm")

\* A step in which the session of c ends the write of its response:
\* exactly the PDU rsp is added to what was written to c, unless the
\* client has closed its socket and the write failed, which ends the
\* session.
WroteExactly(c, rsp) ==
    \/ outbox'[c] = Append(outbox[c], rsp)
    \/ /\ peerClosed[c] # "open"
       /\ outbox'[c] = outbox[c]
       /\ pc'[c] = "closing"
       /\ result'[c] = "IoError"

\* C11: in any session state (unbound, or bound in any role) an
\* enquire_link is answered with exactly one enquire_link_resp with
\* command_status 0 and the sequence_number of the request; the session
\* goes on reading, and neither what the connection is bound as nor the
\* registry changes, and the Logic is not called.
C11_EnquireLinkAnswered ==
    [][\A c \in Conns :
         LET answer == Pdu(0, cur[c].sequence_number, "enquire_link_resp",
                           NoBody)
         IN
         (pc[c] \in {"handle", "write"} /\ cur[c].kind = "enquire_link"
          /\ pc'[c] # pc[c])
         => /\ bound' = bound
            /\ connection' = connection
            /\ logicCalls' = logicCalls
            /\ pc[c] = "handle"
               => /\ pc'[c] = "write"
                  /\ resp'[c] = Response(answer, "continue")
            /\ pc[c] = "write"
               => /\ resp[c].pdu = answer
                  /\ WroteExactly(c, answer)
                  /\ outbox'[c] # outbox[c] => pc'[c] = "read"
      ]_vars

\* A connection had an enquire_link answered before it bound and another
\* one after it had bound and was registered, and is reading again.
C11_Witness ==
    \E c \in Conns :
        /\ pc[c] = "read"
        /\ bound[c] = "bind_transceiver"
        /\ connection = c
        /\ SessionResponses(c) =
              <<Pdu(0, 2, "enquire_link_resp", NoBody),
                Pdu(0, 3, "bind_transceiver_resp", <<SystemId>>),
                Pdu(0, 4, "enquire_link_resp", NoBody)>>

\* The positions of a session whose process_loop has returned.
EndedPcs == {"closing", "disconnected", "closed"}

\* C12: whenever read_pdu returns a parse error the session writes exactly
\* one response, with a command_status that is not 0, then ends and
\* disconnects the connection; the Logic is not called for the bad PDU, and
\* once the session has ended nothing that is buffered after the bad PDU
\* is read, answered or passed to the Logic.
C12_ParseErrorEndsSession ==
    [][\A c \in Conns :
         /\ (pc[c] = "read" /\ read_pdu(c).kind = "error"
             /\ pc'[c] # "read")
            => /\ pc'[c] = "write"
               /\ resp'[c].then = "PduParseError"
               /\ resp'[c].pdu.command_status # ESME_ROK
               /\ resp'[c].pdu = handle_pdu_parse_error(read_pdu(c))
               /\ logicCalls' = logicCalls
         /\ (pc[c] = "write" /\ resp[c].then = "PduParseError"
             /\ pc'[c] # "write")
            => /\ WroteExactly(c, resp[c].pdu)
               /\ pc'[c] = "closing"
               /\ logicCalls' = logicCalls
         /\ (pc[c] = "closing" /\ pc'[c] # "closing")
            => /\ pc'[c] = "disconnected"
               /\ ~halves'[c].read /\ ~halves'[c].write
         /\ pc[c] \in EndedPcs
            => /\ pc'[c] \in EndedPcs
               /\ Len(wire'[c]) >= Len(wire[c])
               /\ SessionResponses(c)' = SessionResponses(c)
               /\ {l \in logicCalls' : l[1] = c}
                     = {l \in logicCalls : l[1] = c}
      ]_vars

\* A bind_transmitter with a bad field was answered with the one error
\* response and the session has ended; the submit_sm the client sent
\* after it is still in the receive buffer and the Logic was never called.
C12_Witness ==
    \E c \in Conns :
        /\ pc[c] = "closed"
        /\ result[c] = "PduParseError"
        /\ ~halves[c].read /\ ~halves[c].write
        /\ outbox[c] = <<Pdu(ESME_RSYSERR, 2, "bind_transmitter_resp",
                             NoBody)>>
        /\ Len(wire[c]) = 2
        /\ wire[c][1].kind = "error"
        /\ wire[c][2].kind = "submit_sm"
        /\ logicCalls = {}

\* The request types that have a response of their own.
RequestsWithResponse == BindKinds \cup {"submit_sm", "enquire_link"}

\* C13: for a PDU that fails to parse after its command_id was read, the
\* error response is the response of that command (its command_id with the
\* top bit set) with a status that is not 0 when the command is one of
\* bind_transmitter, bind_receiver, bind_transceiver, submit_sm and
\* enquire_link; it is a generic_nack only when the command id is unknown
\* or has no response of its own.
C13_ErrorResponseMatchesCommand ==
    [][\A c \in Conns :
         LET e == read_pdu(c) IN
         (pc[c] = "read" /\ e.kind = "error" /\ e.command_id # Nothing
          /\ pc'[c] = "write")
         => IF \E k \in RequestsWithResponse : CommandId(k) = e.command_id[1]
            THEN /\ CommandId(resp'[c].pdu.kind) =
                       [top |-> 1, low |-> e.command_id[1].low]
                 /\ resp'[c].pdu.command_status # ESME_ROK
            ELSE resp'[c].pdu.kind = "generic_nack"
      ]_vars

HandledKinds == BindKinds \cup {"enquire_link", "submit_sm"}

\* C15: when a well-formed PDU of a type the session has no handler for
\* (bind_transmitter_resp, submit_sm_resp, generic_nack, ...) is received,
\* the session writes generic_nack with command_status ESME_RINVCMDID
\* (0x03) and the sequence_number of that PDU, then ends and disconnects;
\* the Logic is not called.
C15_UnexpectedPduIsNacked ==
    [][\A c \in Conns :
         LET nack == Pdu(3, cur[c].sequence_number, "generic_nack", NoBody)
         IN
         /\ (pc[c] = "handle" /\ cur[c].kind \notin HandledKinds
             /\ pc'[c] # "handle")
            => /\ pc'[c] = "write"
               /\ resp'[c] = Response(nack, "UnexpectedPduType")
               /\ logicCalls' = logicCalls
         /\ (pc[c] = "write" /\ cur[c].kind \notin HandledKinds
             /\ cur[c] # NoPdu /\ pc'[c] # "write")
            => /\ resp[c].pdu = nack
               /\ WroteExactly(c, nack)
               /\ pc'[c] = "closing"
               /\ outbox'[c] # outbox[c] => result'[c] = "UnexpectedPduType"
         /\ (result[c] = "UnexpectedPduType" /\ pc'[c] # pc[c])
            => /\ pc'[c] \in {"disconnected", "closed"}
               /\ ~halves'[c].read /\ ~halves'[c].write
      ]_vars

\* A connection that bound had a PDU without handler nacked with
\* ESME_RINVCMDID; its session has ended and the halves are gone.
C15_Witness ==
    \E c \in Conns :
        /\ pc[c] = "closed"
        /\ result[c] = "UnexpectedPduType"
        /\ bound[c] = "bind_transmitter"
        /\ ~halves[c].read /\ ~halves[c].write
        /\ wire[c] = <<>>
        /\ outbox[c] = <<Pdu(0, 2, "bind_transmitter_resp", <<SystemId>>),
                         Pdu(3, 3, "generic_nack", NoBody)>>

\* C16: a deliver_sm_resp received from a client is accepted as an
\* acknowledgement: no response is written for it and the session stays
\* open and goes on reading.
C16_DeliverSmRespIsAccepted ==
    [][\A c \in Conns :
         (pc[c] = "handle" /\ cur[c].kind = "deliver_sm_resp"
          /\ pc'[c] # "handle")
         => /\ pc'[c] = "read"
            /\ resp'[c] = NoResponse
      ]_vars

\* C17: receive_pdu with a deliver_sm whose message id is not the id of
\* any message a successful submit_sm was given returns an error, starts
\* no write on any connection and leaves the registry as it is, also when
\* some connection is bound.
C17_UnknownMessageIsRefused ==
    [][\A p \in HostPdus(100 + hostCalls) :
         (receive_pdu(p) /\ p.kind = "deliver_sm"
          /\ extract_receipted_message_id(p.body) # None
          /\ extract_receipted_message_id(p.body) \notin 1..msgids)
         => /\ hostResult' # "Ok"
            /\ writes' = writes
            /\ connection' = connection
      ]_vars

\* C18: receive_pdu with a PDU that is no deliver_sm returns an error
\* (UnexpectedPduType), and receive_pdu with a deliver_sm whose
\* short_message yields no message id returns an error; in both cases no
\* write is started, nothing is written to any connection and the
\* registry does not change.
C18_HostPduIsRefused ==
    [][\A p \in HostPdus(100 + hostCalls) :
         /\ (receive_pdu(p) /\ p.kind # "deliver_sm")
            => /\ hostResult' = "UnexpectedPduType"
               /\ writes' = writes
               /\ outbox' = outbox /\ socket' = socket
               /\ connection' = connection
         /\ (receive_pdu(p) /\ p.kind = "deliver_sm"
             /\ (p.body.head # "id:" \/ p.body.rest = NotUtf8))
            => /\ hostResult' = "NoMessageId"
               /\ writes' = writes
               /\ outbox' = outbox /\ socket' = socket
               /\ connection' = connection
      ]_vars

\* The host passed a deliver_sm without message id while a connection was
\* bound and registered: the call returned the error, no write task exists
\* and no deliver_sm is on any socket.
C18_Witness ==
    /\ hostResult = "NoMessageId"
    /\ connection # None
    /\ bound[connection] # "unbound"
    /\ pc[connection] = "read"
    /\ writes = {}
    /\ \A c \in Conns :
          /\ \A i \in 1..Len(outbox[c]) : outbox[c][i].kind # "deliver_sm"
          /\ \A i \in 1..Len(socket[c]) : socket[c][i].of.kind # "deliver_sm"

\* What the session of c has put on the socket of c: the chunks on the
\* socket without those of the deliver_sm PDUs of the router.
SessionChunks(c) ==
    SelectSeq(socket[c], LAMBDA ch : ch.of.kind # "deliver_sm")

ConcurrentWrites(c) ==
    /\ pc[c] = "write"
    /\ \E w \in writes : w.conn = c

\* C20: when the session writes a response and the router writes
\* deliver_sm PDUs to the same connection concurrently, the bytes on the
\* socket are a concatenation of whole PDUs: whatever is put on the socket
\* while both are writing is either the command_length of a PDU, put
\* right after a whole PDU by a writer that found the mutex free, or the
\* whole of the rest of the PDU whose command_length was put last.
C20_WholePdusOnSocket ==
    [][\A c \in Conns :
          (ConcurrentWrites(c) /\ peerClosed[c] = "open"
              /\ socket'[c] # socket[c]) =>
             LET n == Len(socket'[c])
                 last == socket'[c][n]
             IN  \/ /\ last.part = "command_length"
                    /\ writeLock[c] = NoWriter
                    /\ n > 1 => socket[c][n - 1].part = "buf"
                 \/ /\ last.part = "buf"
                    /\ n > 1
                    /\ socket[c][n - 1] = Chunk(last.of, "command_length")
      ]_vars

\* The sessions that are inside a callback of the Logic.
InCallback == {c \in Conns : pc[c] = "logic"}

\* The session of c has a PDU for the Logic and waits for its mutex.
WaitsForLogic(c) ==
    /\ pc[c] = "handle"
    /\ handle_pdu_arm(cur[c], c) \in {"Bind", "SubmitSm"}

\* C21: across all connections at most one callback of the Logic (bind or
\* submit_sm) is in flight: the session inside a callback is the one that
\* holds the Logic mutex, and there is no second one.
C21_OneCallbackInFlight ==
    /\ Cardinality(InCallback) <= 1
    /\ \A c \in InCallback : logicHolder = c
    /\ InCallback = {} => logicHolder = None

\* One session is inside a callback while the session of another
\* connection has a bind or a submit_sm to hand to the Logic and waits.
C21_Witness ==
    \E c1, c2 \in Conns :
        /\ c1 # c2
        /\ pc[c1] = "logic"
        /\ logicHolder = c1
        /\ WaitsForLogic(c2)

\* A step in which something is put on the socket of c.
WritesToSocket(c) == socket'[c] # socket[c]

\* C22: no task writes to a socket while it holds the Logic mutex or the
\* mutex of the router. The session that writes a response has released
\* the Logic mutex; the registry changes only in the step that adds a
\* connection under the mutex of the router, which writes nothing; and
\* receive_pdu, which runs under that mutex, writes nothing itself: when
\* it returns Ok it has handed the PDU to a newly spawned task.
C22_NoWriteUnderLock ==
    [][/\ \A c \in Conns :
             /\ pc[c] = "write" => logicHolder # c
             /\ (WritesToSocket(c) /\ writeLock'[c] = SessionWriter)
                => logicHolder # c
             /\ (WritesToSocket(c) /\ writeLock[c] = SessionWriter)
                => logicHolder # c
       /\ connection' # connection =>
             /\ \E c \in Conns : pc[c] = "register" /\ pc'[c] = "write"
             /\ socket' = socket
             /\ outbox' = outbox
       /\ hostCalls' # hostCalls =>
             /\ socket' = socket
             /\ outbox' = outbox
             /\ writeLock' = writeLock
             /\ hostResult' = "Ok" => Cardinality(writes') =
                                         Cardinality(writes) + 1
      ]_vars

\* The session of c has been through the Logic, has added its connection
\* to the registry and is in the middle of writing the response, while a
\* task spawned by receive_pdu has a deliver_sm for the same connection and
\* the session of another connection is inside a callback of the Logic.
C22_Witness ==
    \E c, d \in Conns :
        /\ c # d
        /\ writeLock[c] = SessionWriter
        /\ logicResult[c] = "Ok"
        /\ connection = c
        /\ logicHolder = d
        /\ \E w \in writes : w.conn = c

\* The step in which read_pdu returns to the session of c.
ReadPduReturns(c) == pc[c] = "read" /\ pc'[c] # "read"

\* C24: read_pdu reports closed by peer exactly when the socket is at EOF
\* and the receive buffer is empty, and NotEnoughBytes when the socket is
\* at EOF and the buffer holds a part of a PDU; a session whose read_pdu
\* reported closed by peer ends and writes nothing from then on.
C24_ClosedByPeer ==
    [][\A c \in Conns :
          /\ ReadPduReturns(c) =>
                /\ result'[c] = "ClosedByPeer"
                   <=> (wire[c] = <<>> /\ peerClosed[c] = "eof")
                /\ (wire[c] = <<>> /\ peerClosed[c] = "eof_mid_pdu") =>
                      /\ pc'[c] = "write"
                      /\ resp'[c] = Response(
                            handle_pdu_parse_error(
                               PduParseError(Nothing, Nothing,
                                             "NotEnoughBytes")),
                            "PduParseError")
                /\ result'[c] = "ClosedByPeer" =>
                      /\ pc'[c] = "closing"
                      /\ resp'[c] = NoResponse
          /\ result[c] = "ClosedByPeer" =>
                /\ pc'[c] \in EndedPcs
                /\ result'[c] = "ClosedByPeer"
                /\ SessionChunks(c)' = SessionChunks(c)
                /\ SessionResponses(c)' = SessionResponses(c)
      ]_vars

\* A client that got one response closed its socket after a whole PDU;
\* read_pdu reported closed by peer and the session ended with that one
\* response written.
C24_Witness ==
    \E c \in Conns :
        /\ result[c] = "ClosedByPeer"
        /\ pc[c] = "closed"
        /\ peerClosed[c] = "eof"
        /\ wire[c] = <<>>
        /\ Len(SessionResponses(c)) = 1

\* The step in which the write_pdu of the spawned task w returns an error.
SpawnedWriteFails(w) ==
    \/ \E r \in {"IoError", "BrokenPipe"} : SpawnedWriteLength(w, r)
    \/ SpawnedWrite(w, "IoError")

\* The step in which the write_pdu of the session of c returns an error.
SessionWriteFails(c) ==
    \/ \E r \in {"IoError", "BrokenPipe"} : WriteLength(c, r)
    \/ WritePdu(c, "IoError")

\* C25: a write_pdu that fails leads to the disconnect of its connection,
\* for the writes of the session and for those of the tasks spawned by
\* receive_pdu alike: once the write has failed, the session of the
\* connection is on its way out (process_loop has returned, or the
\* connection is disconnected already).
C25_FailedWriteDisconnects ==
    [][/\ \A c \in Conns : SessionWriteFails(c) => pc'[c] \in EndedPcs
       /\ \A w \in writes : SpawnedWriteFails(w) => pc'[w.conn] \in EndedPcs
      ]_vars

\* A delivery receipt for message id m has been emitted: a deliver_sm that
\* carries the id was written to a connection.
Emitted(m) ==
    \E c \in Conns : \E i \in 1..Len(outbox[c]) :
        /\ outbox[c][i].kind = "deliver_sm"
        /\ extract_receipted_message_id(outbox[c][i].body) = m

\* C26: the registry entry of a message id is destroyed once its delivery
\* receipt has been emitted: a receive_pdu with a deliver_sm for an id whose
\* receipt was written already returns an error and spawns no write.
C26_ReceiptIsRoutedOnce ==
    [][\A m \in 1..(msgids + 1) :
          (/\ Emitted(m)
           /\ receive_pdu(Pdu(ESME_ROK, 100 + hostCalls, "deliver_sm",
                               Receipt(m))))
          => /\ hostResult' # "Ok"
             /\ writes' = writes
      ]_vars

\* The command_length the first four bytes of the buffer encode.
DeclaredLength == from_be_bytes(SubSeq(input.bytes, 1, 4))

\* C27: check returns LengthTooShort or LengthTooLong whenever the first
\* four bytes encode a command_length below 8 or above 70000, however many
\* bytes follow; otherwise it returns Ready exactly when command_length
\* bytes or more are buffered, and then leaves the cursor command_length
\* bytes past the start; otherwise, with fewer than 4 bytes or fewer than
\* command_length bytes, it returns Incomplete.
C27_CheckOutcome ==
    output.op = "check" =>
        IF Len(input.bytes) < 4 THEN output.result = "Incomplete"
        ELSE IF Gt(U32(MIN_PDU_LENGTH), DeclaredLength)
        THEN output.result = "LengthTooShort"
        ELSE IF Gt(DeclaredLength, U32(MAX_PDU_LENGTH))
        THEN output.result = "LengthTooLong"
        ELSE IF Gt(DeclaredLength, U32(Len(input.bytes)))
        THEN output.result = "Incomplete"
        ELSE /\ output.result = "Ready"
             /\ output.position = Val(DeclaredLength)

\* check has returned Ready for a buffer that holds a whole PDU and bytes
\* of the next one.
C27_Witness ==
    /\ output.op = "check"
    /\ output.result = "Ready"
    /\ output.position >= MIN_PDU_LENGTH
    /\ Len(input.bytes) > output.position

\* C28: Pdu::parse rejects every input whose declared command_length n is
\* outside [8, 70000], with LengthTooShort for n below 8 and LengthTooLong
\* for n above 70000, and yields no PDU for it; this for every n, those of
\* 0..3 included, for which command_length - 4 is below zero.
C28_ParseRejectsInvalidLength ==
    (output.op = "parse" /\ Len(input.bytes) >= 4) =>
        /\ Gt(U32(MIN_PDU_LENGTH), DeclaredLength)
              => (output.result = "LengthTooShort" /\ output.pdu = NoPdu)
        /\ Gt(DeclaredLength, U32(MAX_PDU_LENGTH))
              => (output.result = "LengthTooLong" /\ output.pdu = NoPdu)

\* The offset behind the frame the buffer starts with: the command_length
\* n it declares, or 4 when n is less, since command_length is itself read.
EndOfFrame ==
    IF Gt(U32(4), DeclaredLength) THEN U32(4) ELSE DeclaredLength

\* C29: for a buffer whose first four bytes encode n, a Pdu::parse that
\* succeeds has consumed exactly n bytes (a body that ends before the frame
\* does is rejected), parse_pdu then removes exactly n bytes from the
\* receive buffer, and a Pdu::parse that fails has read no byte at offset n
\* or beyond.
C29_ParseStaysInFrame ==
    /\ (output.op = "parse" /\ output.result = "Ok")
          => U32(output.position) = DeclaredLength
    /\ (output.op = "parse_pdu" /\ output.result = "Ok")
          => /\ U32(output.position) = DeclaredLength
             /\ output.bytes = SubSeq(input.bytes, output.position + 1,
                                      Len(input.bytes))
    /\ (output.op = "parse" /\ output.result # "Ok"
        /\ Len(input.bytes) >= 4)
          => ~Gt(U32(output.position), EndOfFrame)

\* C30: for every Pdu over the supported bodies, parsing the bytes that
\* Pdu::write produces yields an equal Pdu, and the first four bytes written
\* encode the number of bytes written for the PDU.
C30_WriteThenParse ==
    output.op = "write" =>
        /\ output.result = "Ok"
        /\ output.pdu = input.pdu
        /\ from_be_bytes(SubSeq(output.bytes, 1, 4)) = U32(Len(output.bytes))

\* C32: when Logic.submit_sm returns an error the session builds a
\* header-only submit_sm_resp with command_status ESME_RSYSERR (0x08) and
\* the sequence_number of the request, inserts nothing into the registry
\* and records no submitter of a message, writes the response and goes on
\* reading with both halves of its socket (unless the client has closed
\* and the write fails).
C32_SubmitSmError ==
    [][\A c \in Conns :
         /\ (pc[c] = "logic" /\ cur[c].kind = "submit_sm"
             /\ logicResult'[c] = "InternalError")
            => /\ pc'[c] = "write"
               /\ resp'[c].then = "continue"
               /\ resp'[c].pdu = Pdu(8, cur[c].sequence_number,
                                     "submit_sm_resp", NoBody)
               /\ connection' = connection
               /\ submitter' = submitter
               /\ msgids' = msgids
               /\ bound' = bound
         /\ (pc[c] = "write" /\ cur[c].kind = "submit_sm"
             /\ logicResult[c] = "InternalError" /\ pc'[c] # "write")
            => /\ connection' = connection
               /\ submitter' = submitter
               /\ \/ /\ outbox'[c] = Append(outbox[c], resp[c].pdu)
                     /\ resp[c].pdu = Pdu(8, cur[c].sequence_number,
                                          "submit_sm_resp", NoBody)
                     /\ pc'[c] = "read"
                     /\ halves'[c].read /\ halves'[c].write
                  \/ /\ peerClosed[c] # "open"
                     /\ outbox'[c] = outbox[c]
                     /\ result'[c] = "IoError"
      ]_vars

\* A session has written the header-only submit_sm_resp with status 8 for
\* a submit_sm its Logic refused, no message has a submitter, and the
\* session is open and reading.
C32_Witness ==
    \E c \in Conns :
        /\ pc[c] = "read"
        /\ halves[c].read /\ halves[c].write
        /\ submitter = <<>>
        /\ \E i \in 1..Len(outbox[c]) :
              /\ outbox[c][i].kind = "submit_sm_resp"
              /\ outbox[c][i].command_status = 8
              /\ outbox[c][i].body = NoBody

\* C33: a submit_sm_resp with command_status 0 is accepted, by Pdu::parse
\* and parse_pdu and by Pdu::new, only with a message_id that is not
\* empty: with no body, or with the empty message_id, it is rejected.
C33_SubmitSmRespOkHasMessageId ==
    (/\ output.op \in {"parse", "parse_pdu", "new"}
     /\ output.result = "Ok"
     /\ output.pdu.kind = "submit_sm_resp"
     /\ output.pdu.command_status = 0)
        => /\ output.pdu.body # <<>>
           /\ output.pdu.body[1] # <<>>

\* The frame check has passed for the buffer and the frame holds the
\* sequence_number field: the buffer holds command_length bytes, and
\* command_length is valid and no less than 16.
SequenceNumberWasRead ==
    /\ Len(input.bytes) >= 16
    /\ validate_command_length(DeclaredLength) = "Ok"
    /\ ~Gt(U32(16), DeclaredLength)
    /\ ~Gt(DeclaredLength, U32(Len(input.bytes)))

\* C34: the response to a parse error carries the sequence_number of the
\* offending PDU when the error was raised after that field was read; it
\* carries sequence_number 1 and is a generic_nack when the error was
\* raised before.
C34_SequenceNumberOfErrorResponse ==
    output.op = "handle_pdu_parse_error"
        => IF SequenceNumberWasRead
           THEN output.pdu.sequence_number
                    = Val(from_be_bytes(SubSeq(input.bytes, 13, 16)))
           ELSE /\ output.pdu.sequence_number = 1
                /\ output.pdu.kind = "generic_nack"

\* The input of COctetString::read has a NUL among its first max_len
\* bytes.
NulWithin(max_len) ==
    \E z \in 1..Min(max_len, Len(input.bytes)) : input.bytes[z] = 0

\* The place of the first NUL of the input, counted from 1.
FirstNulOfInput ==
    CHOOSE z \in 1..Len(input.bytes) :
        /\ input.bytes[z] = 0
        /\ \A i \in 1..(z - 1) : input.bytes[i] # 0

\* What COctetString::read does with input that has no NUL among its
\* first max_len bytes: COctetStringTooLong when the input has max_len
\* bytes or more, COctetStringDoesNotEndWithZeroByte when it ends before.
ClassifiesUnterminated ==
    (output.op = "COctetString::read" /\ ~NulWithin(output.pdu.max_len))
        => IF Len(input.bytes) >= output.pdu.max_len
           THEN output.result = "COctetStringTooLong"
           ELSE output.result = "COctetStringDoesNotEndWithZeroByte"

\* C35 as stated: COctetString::read(max_len) gives TooLong when max_len
\* bytes hold no NUL (even if one follows), DoesNotEndWithZeroByte when
\* the input ends before max_len bytes and before a NUL, and with a NUL
\* among the first max_len bytes it returns the bytes before it as value
\* and consumes the length of the value + 1 bytes.
C35_COctetStringRead ==
    /\ ClassifiesUnterminated
    /\ (output.op = "COctetString::read" /\ NulWithin(output.pdu.max_len))
          => /\ output.result = "Ok"
             /\ output.pdu.value
                   = SubSeq(input.bytes, 1, FirstNulOfInput - 1)
             /\ output.position = Len(output.pdu.value) + 1

\* C35, amended: as above, but with a NUL among the first max_len bytes
\* the bytes before it are the value only when all of them are ASCII;
\* otherwise the error is COctetStringIsNotAscii. In both cases the bytes
\* up to and with the NUL are consumed.
C35_COctetStringReadAscii ==
    /\ ClassifiesUnterminated
    /\ (output.op = "COctetString::read" /\ NulWithin(output.pdu.max_len))
          => /\ output.position = FirstNulOfInput
             /\ IF \A i \in 1..(FirstNulOfInput - 1) :
                       input.bytes[i] < 128
                THEN /\ output.result = "Ok"
                     /\ output.pdu.value
                           = SubSeq(input.bytes, 1, FirstNulOfInput - 1)
                ELSE output.result = "COctetStringIsNotAscii"

\* "ab" and a NUL were read with max_len 2: too long, although the NUL
\* follows.
C35_Witness ==
    /\ output.op = "COctetString::read"
    /\ input.bytes = <<97, 98, 0>>
    /\ output.pdu.max_len = 2
    /\ output.result = "COctetStringTooLong"

\* C36: extract_receipted_message_id gives Some(rest) exactly when
\* short_message starts with the bytes "id:" and what follows them is
\* valid UTF-8, rest being all that follows (possibly nothing), and None
\* otherwise; receive_pdu goes on to route the PDU, with rest as message
\* id, only when it is Some.
C36_ReceiptedMessageId ==
    output.op = "receive_pdu"
        => IF /\ Len(input.bytes) >= 3
              /\ input.bytes[1] = 105 /\ input.bytes[2] = 100
              /\ input.bytes[3] = 58
              /\ from_utf8_ok(input.bytes, 4)
           THEN /\ output.result = "receive_pdu_for_message"
                /\ IdPrefix \o output.bytes = input.bytes
           ELSE /\ output.result = "NoMessageId"
                /\ output.bytes = <<>>

\* receive_pdu was given the short_message "id:" and goes on to route with
\* the empty message id.
C36_Witness ==
    /\ output.op = "receive_pdu"
    /\ input.bytes = <<105, 100, 58>>
    /\ output.result = "receive_pdu_for_message"
    /\ output.bytes = <<>>

\* C40: when a write_pdu returns Ok for a PDU, of the session or of a task
\* of the router, all the bytes of the PDU have been put on the socket:
\* its command_length and, right after it, the whole of the rest.
C40_OkMeansAllBytesWritten ==
    [][\A c \in Conns :
          outbox'[c] # outbox[c] =>
             LET n == Len(socket'[c])
                 p == outbox'[c][Len(outbox'[c])]
             IN  /\ n >= 2
                 /\ socket'[c][n - 1] = Chunk(p, "command_length")
                 /\ socket'[c][n] = Chunk(p, "buf")
      ]_vars

\* C31: every Pdu that Pdu::new or Pdu::parse produces has command_status 0
\* when its body is a request (Pdu::new gives StatusIsNotZero otherwise), is
\* header-only when its body is a response and command_status is not 0
\* (Pdu::new gives BodyNotAllowedWhenStatusIsNotZero otherwise), and carries
\* its populated body when its body is a response and command_status is 0.
C31_StatusFitsBody ==
    /\ (output.op \in {"new", "parse"} /\ output.result = "Ok")
          => /\ output.pdu.kind \in RequestKinds
                   => output.pdu.command_status = 0
             /\ (/\ output.pdu.kind \in ResponseKinds
                 /\ output.pdu.command_status # 0)
                   => output.pdu.body = <<>>
             /\ (/\ output.pdu.kind \in ResponseKinds
                 /\ output.pdu.command_status = 0)
                   => output.pdu.body # <<>>
    /\ (output.op = "new" /\ input.pdu.kind \in RequestKinds
        /\ input.pdu.command_status # 0)
          => output.result = "StatusIsNotZero"
    /\ (output.op = "new" /\ input.pdu.kind \in ResponseKinds
        /\ input.pdu.command_status # 0 /\ input.pdu.body # <<>>)
          => output.result = "BodyNotAllowedWhenStatusIsNotZero"

\* ------------------------------------------------- SmppConnection, alone

\* One SmppConnection in the hands of a holder of its Arc, which calls its
\* three methods in any order. cur[c] is what the last read_pdu returned,
\* result[c] what the last write_pdu returned; pc[c] = "held" throughout.

\* SmppConnection::new for connection 1.
ConnInit ==
    /\ env = ConnEnv
    /\ input = NoInput
    /\ output = NoOutput
    /\ accepted = 1
    /\ pc = [c \in Conns |-> IF c = 1 THEN "held" ELSE "none"]
    /\ sem = MaxOpenSockets
    /\ cur = [c \in Conns |-> NoPdu]
    /\ resp = [c \in Conns |-> NoResponse]
    /\ logicResult = [c \in Conns |-> "none"]
    /\ result = [c \in Conns |-> "none"]
    /\ halves = [c \in Conns |-> [read |-> c = 1, write |-> c = 1]]
    /\ wire = [c \in Conns |-> <<>>]
    /\ peerClosed = [c \in Conns |-> "open"]
    /\ sent = [c \in Conns |-> 0]
    /\ outbox = [c \in Conns |-> <<>>]
    /\ socket = [c \in Conns |-> <<>>]
    /\ writeLock = [c \in Conns |-> NoWriter]
    /\ connection = None
    /\ logicHolder = None
    /\ msgids = 0
    /\ submitter = <<>>
    /\ bound = [c \in Conns |-> "unbound"]
    /\ logicCalls = {}
    /\ writes = {}
    /\ hostCalls = 0
    /\ hostResult = "none"

\* The PDUs the holder writes.
ConnPdus ==
    {Pdu(ESME_ROK, 1, "enquire_link_resp", NoBody),
     Pdu(ESME_ROK, 1, "deliver_sm", Receipt(1))}

\* SmppConnection::read_pdu, called and returned: a PDU that parsed is
\* taken out of the receive buffer; the call does not return while it
\* awaits more bytes.
CallReadPdu(c) ==
    /\ pc[c] = "held"
    /\ LET r == read_pdu(c) IN
       /\ r.kind # "pending"
       /\ cur' = [cur EXCEPT ![c] = r]
       /\ wire' = [wire EXCEPT ![c] =
              IF r.kind \in {"closed", "error"} THEN @ ELSE Tail(@)]
    /\ UNCHANGED <<pc, resp, logicResult, result>>
    /\ UNCHANGED <<halves, peerClosed, sent, outbox, socket, writeLock>>
    /\ UNCHANGED codecVars
    /\ UNCHANGED <<env, listenerVars, logicVars, routerVars, hostVars>>

\* SmppConnection::write_pdu, called and returned: under the mutex of the
\* write half, Pdu::write puts command_length and buf on the socket.
CallWritePdu(c, pdu, r) ==
    /\ pc[c] = "held"
    /\ Len(outbox[c]) < ConnWrites
    /\ pdu \in ConnPdus
    /\ r \in write_pdu(c)
    /\ result' = [result EXCEPT ![c] = r]
    /\ IF r = "Ok"
       THEN /\ outbox' = [outbox EXCEPT ![c] = Append(@, pdu)]
            /\ \E part \in stream_write(c) :
                  socket' = [socket EXCEPT ![c] =
                     @ \o <<Chunk(pdu, "command_length"), Chunk(pdu, part)>>]
       ELSE UNCHANGED <<outbox, socket>>
    /\ UNCHANGED <<pc, cur, resp, logicResult>>
    /\ UNCHANGED <<halves, wire, peerClosed, sent, writeLock>>
    /\ UNCHANGED codecVars
    /\ UNCHANGED <<env, listenerVars, logicVars, routerVars, hostVars>>

\* SmppConnection::disconnect: both halves are taken.
CallDisconnect(c) ==
    /\ pc[c] = "held"
    /\ halves' = [halves EXCEPT ![c] = [read |-> FALSE, write |-> FALSE]]
    /\ UNCHANGED <<wire, peerClosed, sent, outbox, socket, writeLock>>
    /\ UNCHANGED codecVars
    /\ UNCHANGED <<env, listenerVars, sessionVars, logicVars, routerVars,
                   hostVars>>

ConnNext ==
    \/ \E f \in Frames(NextSeq(1)) : ClientSend(1, f)
    \/ \E how \in {"eof", "eof_mid_pdu"} : ClientClose(1, how)
    \/ CallReadPdu(1)
    \/ \E pdu \in ConnPdus : \E r \in {"Ok", "IoError", "BrokenPipe"} :
          CallWritePdu(1, pdu, r)
    \/ CallDisconnect(1)

ConnSpec == ConnInit /\ [][ConnNext]_vars

\* impl From<io::Error> for PduParseError: UnexpectedEof becomes
\* NotEnoughBytes; any other kind e is carried in OtherIoError, written
\* here by the name of the kind.
FromIoError(e) ==
    IF e = "UnexpectedEof"
    THEN PduParseError(Nothing, Nothing, "NotEnoughBytes")
    ELSE PduParseError(Nothing, Nothing, e)

\* C23: disconnect is idempotent, and after it both halves are gone: a
\* second disconnect changes nothing, and every read_pdu and every
\* write_pdu that follows fails with BrokenPipe and leaves the socket and
\* the receive buffer as they were.
C23_DisconnectIsFinal ==
    [][\A c \in Conns :
          (~halves[c].read /\ ~halves[c].write) =>
             /\ CallDisconnect(c) => UNCHANGED vars
             /\ CallReadPdu(c) =>
                   /\ cur'[c] = FromIoError("BrokenPipe")
                   /\ wire' = wire
             /\ (\E pdu \in ConnPdus : \E r \in {"Ok", "IoError", "BrokenPipe"} :
                    CallWritePdu(c, pdu, r)) =>
                   /\ result'[c] = "BrokenPipe"
                   /\ socket' = socket
                   /\ outbox' = outbox
      ]_vars

\* ------------------------------------------------------ the codec, alone

\* The codec is called once, with any of the inputs; no connection is
\* open.
CodecInit ==
    /\ env = ConnEnv
    /\ input \in Inputs
    /\ output = NoOutput
    /\ accepted = 0
    /\ pc = [c \in Conns |-> "none"]
    /\ sem = MaxOpenSockets
    /\ cur = [c \in Conns |-> NoPdu]
    /\ resp = [c \in Conns |-> NoResponse]
    /\ logicResult = [c \in Conns |-> "none"]
    /\ result = [c \in Conns |-> "none"]
    /\ halves = [c \in Conns |-> [read |-> FALSE, write |-> FALSE]]
    /\ wire = [c \in Conns |-> <<>>]
    /\ peerClosed = [c \in Conns |-> "open"]
    /\ sent = [c \in Conns |-> 0]
    /\ outbox = [c \in Conns |-> <<>>]
    /\ socket = [c \in Conns |-> <<>>]
    /\ writeLock = [c \in Conns |-> NoWriter]
    /\ connection = None
    /\ logicHolder = None
    /\ msgids = 0
    /\ submitter = <<>>
    /\ bound = [c \in Conns |-> "unbound"]
    /\ logicCalls = {}
    /\ writes = {}
    /\ hostCalls = 0
    /\ hostResult = "none"

\* check on a cursor over the buffer.
CallCheck ==
    /\ input.pdu = NoPdu
    /\ output = NoOutput
    /\ LET r == check(input.bytes, input.overflow_checks) IN
       output' = Output("check", r.outcome, NoPdu, r.position, <<>>)
    /\ UNCHANGED <<env, input, listenerVars, sessionVars, socketVars,
                   logicVars, routerVars, hostVars>>

\* Pdu::parse on a cursor over the buffer.
CallParse ==
    /\ input.pdu = NoPdu
    /\ output = NoOutput
    /\ LET r == parse(input.bytes, input.overflow_checks) IN
       output' = Output("parse", r.result, r.pdu, r.position, <<>>)
    /\ UNCHANGED <<env, input, listenerVars, sessionVars, socketVars,
                   logicVars, routerVars, hostVars>>

\* SmppRead::parse_pdu on the buffer: position is the number of bytes it
\* removed, bytes the buffer it left.
CallParsePdu ==
    /\ input.pdu = NoPdu
    /\ output = NoOutput
    /\ LET r == parse_pdu(input.bytes, input.overflow_checks) IN
       output' = Output("parse_pdu", r.result, r.pdu,
                        Len(input.bytes) - Len(r.buffer), r.buffer)
    /\ UNCHANGED <<env, input, listenerVars, sessionVars, socketVars,
                   logicVars, routerVars, hostVars>>

\* COctetString::read on the bytes of the input, with one of the max_len
\* values.
CallCOctetStringRead ==
    /\ input.pdu = NoPdu
    /\ output = NoOutput
    /\ \E max_len \in MaxLens :
          LET r == COctetString_read(input.bytes, 0, Len(input.bytes),
                                     max_len)
          IN  output' = Output("COctetString::read",
                               IF r.ok THEN "Ok" ELSE r.err,
                               [kind |-> "COctetString", value |-> r.value,
                                max_len |-> max_len],
                               r.pos, <<>>)
    /\ UNCHANGED <<env, input, listenerVars, sessionVars, socketVars,
                   logicVars, routerVars, hostVars>>

\* Smsc::receive_pdu given a deliver_sm whose short_message is the bytes
\* of the input: receive_pdu_for_message is called with the message id
\* extracted, or the error for no message id is returned.
CallReceivePdu ==
    /\ input.pdu = NoPdu
    /\ output = NoOutput
    /\ LET message_id == extract_from_bytes(input.bytes) IN
       output' = Output("receive_pdu",
                        IF message_id.some THEN "receive_pdu_for_message"
                        ELSE "NoMessageId",
                        NoPdu, 0, message_id.value)
    /\ UNCHANGED <<env, input, listenerVars, sessionVars, socketVars,
                   logicVars, routerVars, hostVars>>

\* process_loop, when read_pdu returns a PduParseError for the buffer:
\* the response handle_pdu_parse_error builds for it.
CallHandlePduParseError ==
    /\ input.pdu = NoPdu
    /\ output = NoOutput
    /\ LET r == parse_pdu(input.bytes, input.overflow_checks) IN
       /\ r.result \notin {"Ok", "None", "panic"}
       /\ output' = Output("handle_pdu_parse_error", r.result,
                           handle_pdu_parse_error(
                               PduParseError(r.header.command_id,
                                             r.header.sequence_number,
                                             r.result)),
                           0, r.buffer)
    /\ UNCHANGED <<env, input, listenerVars, sessionVars, socketVars,
                   logicVars, routerVars, hostVars>>

\* Pdu::new with the arguments of the input.
CallNew ==
    /\ input.pdu # NoPdu
    /\ output = NoOutput
    /\ LET r == new(input.pdu.command_status, input.pdu.sequence_number,
                    input.pdu.kind, input.pdu.body)
       IN  output' = Output("new", r.result, r.pdu, 0, <<>>)
    /\ UNCHANGED <<env, input, listenerVars, sessionVars, socketVars,
                   logicVars, routerVars, hostVars>>

\* Pdu::write of a PDU that Pdu::new has returned, and Pdu::parse of the
\* bytes written.
CallWrite ==
    /\ input.pdu # NoPdu
    /\ new(input.pdu.command_status, input.pdu.sequence_number,
           input.pdu.kind, input.pdu.body).result = "Ok"
    /\ output = NoOutput
    /\ LET written == write(input.pdu)
           r == parse(written, input.overflow_checks)
       IN  output' = Output("write", r.result, r.pdu, r.position, written)
    /\ UNCHANGED <<env, input, listenerVars, sessionVars, socketVars,
                   logicVars, routerVars, hostVars>>

CodecNext ==
    \/ CallCheck \/ CallParse \/ CallParsePdu \/ CallHandlePduParseError
    \/ CallCOctetStringRead \/ CallReceivePdu \/ CallNew \/ CallWrite

CodecSpec == CodecInit /\ [][CodecNext]_vars

\* ------------------------------------------ the tasks on their threads

\* As Init, with one of the workloads of the teardown.
TeardownInit ==
    /\ env \in TeardownEnvs
    /\ input = NoInput
    /\ output = NoOutput
    /\ accepted = 0
    /\ pc = [c \in Conns |-> "none"]
    /\ sem = MaxOpenSockets
    /\ cur = [c \in Conns |-> NoPdu]
    /\ resp = [c \in Conns |-> NoResponse]
    /\ logicResult = [c \in Conns |-> "none"]
    /\ result = [c \in Conns |-> "none"]
    /\ halves = [c \in Conns |-> [read |-> FALSE, write |-> FALSE]]
    /\ wire = [c \in Conns |-> <<>>]
    /\ peerClosed = [c \in Conns |-> "open"]
    /\ sent = [c \in Conns |-> 0]
    /\ outbox = [c \in Conns |-> <<>>]
    /\ socket = [c \in Conns |-> <<>>]
    /\ writeLock = [c \in Conns |-> NoWriter]
    /\ connection = None
    /\ logicHolder = None
    /\ msgids = 0
    /\ submitter = <<>>
    /\ bound = [c \in Conns |-> "unbound"]
    /\ logicCalls = {}
    /\ writes = {}
    /\ hostCalls = 0
    /\ hostResult = "none"

\* The sessions whose task is inside the drop of DisconnectGuard:
\* process_loop has returned and futures::executor::block_on runs
\* disconnect on the worker thread of the task, which it does not give
\* back to the runtime before disconnect is over.
InDrop == {c \in Conns : pc[c] \in {"closing", "disconnected"}}

\* The runtime has a worker thread to poll a task with.
ThreadFree == Cardinality(InDrop) < env.threads

\* A step of the task of session c that the runtime polls it for.
SessionStep(c) ==
    \/ Admit(c)
    \/ ReadPdu(c)
    \/ HandlePdu(c)
    \/ LockLogic(c)
    \/ \E r \in BindResults : LogicBind(c, r)
    \/ Register(c)
    \/ \E r \in {"Ok", "IoError"} : WriteLength(c, r)
    \/ \E r \in {"Ok", "IoError"} : WritePdu(c, r)

\* A step of a task the router spawned to write a deliver_sm.
SpawnedStep ==
    \/ \E w \in writes : \E r \in {"Ok", "IoError", "BrokenPipe"} :
          SpawnedWriteLength(w, r)
    \/ \E w \in writes : \E r \in {"Ok", "IoError"} : SpawnedWrite(w, r)

\* The client and the host are not tasks of the runtime. A task is polled
\* when a worker thread is free; the steps inside the drop of
\* DisconnectGuard are taken by the thread that is blocked in it.
TeardownNext ==
    \/ \E c \in Conns : \E f \in Frames(NextSeq(c)) : ClientSend(c, f)
    \/ \E c \in Conns : ClientClose(c, "eof")
    \/ \E p \in HostPdus(100 + hostCalls) : receive_pdu(p)
    \/ ThreadFree /\ \E c \in Conns : Accept(c)
    \/ ThreadFree /\ \E c \in Conns : SessionStep(c)
    \/ ThreadFree /\ SpawnedStep
    \/ \E c \in Conns : Disconnect(c)
    \/ \E c \in Conns : Release(c)

\* The runtime polls every task that can go on, as long as it has a
\* thread for it; the callbacks of the Logic return and the writes to the
\* socket end.
TeardownFairness ==
    /\ WF_vars(ThreadFree /\ \E c \in Conns : Accept(c))
    /\ \A c \in Conns : WF_vars(ThreadFree /\ SessionStep(c))
    /\ WF_vars(ThreadFree /\ SpawnedStep)
    /\ \A c \in Conns : WF_vars(Disconnect(c))
    /\ \A c \in Conns : WF_vars(Release(c))

TeardownSpec == TeardownInit /\ [][TeardownNext]_vars /\ TeardownFairness

\* C38: once process_loop has returned, the disconnect of DisconnectGuard
\* takes both halves of the connection in the end, with one worker thread
\* as with several, and also when a task of the router holds the mutex
\* of the write half at that moment.
C38_TeardownCompletes ==
    \A c \in Conns :
        (pc[c] = "closing") ~> (~halves[c].read /\ ~halves[c].write)

\* The states of the task of a session that holds a permit.
Admitted == {"read", "handle", "held", "logic", "register", "write",
             "closing", "disconnected"}

\* C39: every admitted session whose peer has closed the socket ends in
\* the end: process returns, both halves of the connection are taken and
\* the permit is given back.
C39_SessionTerminates ==
    \A c \in Conns :
        (pc[c] \in Admitted /\ peerClosed[c] # "open")
            ~> (pc[c] = "closed" /\ ~halves[c].read /\ ~halves[c].write)


\* ----------------------------------------------------- SmppRead, alone

\* The PDUs a client sends one after the other.
ReaderPdus ==
    {Pdu(ESME_RSYSERR, 3, "submit_sm_resp", <<>>),
     Pdu(ESME_ROK, 3, "submit_sm_resp", <<<<49>>>>),
     Pdu(ESME_ROK, 2, "bind_transmitter_resp", <<<<97, 98>>>>)}

\* How many bytes of its last PDU the client has sent when it stops.
PartialCuts == {0, 3, 9}

\* What the client sends: two PDUs, then the first bytes of a third or a
\* frame with an unknown command_id.
Streams ==
    {write(p1) \o write(p2) \o SubSeq(write(p3), 1, k) :
        p1 \in ReaderPdus, p2 \in ReaderPdus, p3 \in ReaderPdus,
        k \in PartialCuts}
    \cup {write(p1) \o write(p2) \o f :
            p1 \in ReaderPdus, p2 \in ReaderPdus, f \in OddFrames}

\* How many bytes one read of the socket can bring, when it holds as many.
ReadSizes == {1, 5, 64}

\* A call of read_pdu has returned and will not be followed by another.
ReadEnded == output.result \notin {"none", "Some", "reading"}

\* One connection is read from: input.bytes is the buffer of SmppRead, and
\* in output bytes is what the client has sent and the socket still holds,
\* result is "none" before the first call of read_pdu, "reading" within a
\* call, and what the last call returned otherwise, pdu being the PDU
\* returned and position the number of bytes taken off the buffer.
ReaderInit ==
    /\ env = ConnEnv
    /\ \E oc \in BOOLEAN : input = Input(NoPdu, <<>>, oc)
    /\ \E stream \in Streams :
          output = Output("read_pdu", "none", NoPdu, 0, stream)
    /\ accepted = 0
    /\ pc = [c \in Conns |-> "none"]
    /\ sem = MaxOpenSockets
    /\ cur = [c \in Conns |-> NoPdu]
    /\ resp = [c \in Conns |-> NoResponse]
    /\ logicResult = [c \in Conns |-> "none"]
    /\ result = [c \in Conns |-> "none"]
    /\ halves = [c \in Conns |-> [read |-> FALSE, write |-> FALSE]]
    /\ wire = [c \in Conns |-> <<>>]
    /\ peerClosed = [c \in Conns |-> "open"]
    /\ sent = [c \in Conns |-> 0]
    /\ outbox = [c \in Conns |-> <<>>]
    /\ socket = [c \in Conns |-> <<>>]
    /\ writeLock = [c \in Conns |-> NoWriter]
    /\ connection = None
    /\ logicHolder = None
    /\ msgids = 0
    /\ submitter = <<>>
    /\ bound = [c \in Conns |-> "unbound"]
    /\ logicCalls = {}
    /\ writes = {}
    /\ hostCalls = 0
    /\ hostResult = "none"

\* read_pdu: parse_pdu finds a PDU in the buffer, or an error; read_pdu
\* returns it.
ReadParsePdu ==
    /\ ~ReadEnded
    /\ LET r == parse_pdu(input.bytes, input.overflow_checks) IN
       /\ r.result # "None"
       /\ input' = [input EXCEPT !.bytes = r.buffer]
       /\ output' = Output("read_pdu",
                           IF r.result = "Ok" THEN "Some" ELSE r.result,
                           r.pdu, Len(input.bytes) - Len(r.buffer),
                           output.bytes)
    /\ UNCHANGED <<env, listenerVars, sessionVars, socketVars, logicVars,
                   routerVars, hostVars>>

\* read_pdu: parse_pdu finds no whole PDU in the buffer, and read_own_buf
\* brings bytes from the socket; the loop goes on.
ReadOwnBuf(n) ==
    /\ ~ReadEnded
    /\ parse_pdu(input.bytes, input.overflow_checks).result = "None"
    /\ output.bytes # <<>>
    /\ LET m == Min(n, Len(output.bytes)) IN
       /\ input' = [input EXCEPT
                        !.bytes = @ \o SubSeq(output.bytes, 1, m)]
       /\ output' = Output("read_pdu", "reading", NoPdu, 0,
                           SubSeq(output.bytes, m + 1, Len(output.bytes)))
    /\ UNCHANGED <<env, listenerVars, sessionVars, socketVars, logicVars,
                   routerVars, hostVars>>

\* read_pdu: parse_pdu finds no whole PDU in the buffer, and read_own_buf
\* returns 0 because the client has closed: Ok(None) when the buffer is
\* empty, the error NotEnoughBytes when it is not.
ReadAtEof ==
    /\ ~ReadEnded
    /\ parse_pdu(input.bytes, input.overflow_checks).result = "None"
    /\ output.bytes = <<>>
    /\ output' = Output("read_pdu",
                        IF input.bytes = <<>> THEN "None"
                        ELSE "NotEnoughBytes",
                        NoPdu, 0, <<>>)
    /\ UNCHANGED <<env, input, listenerVars, sessionVars, socketVars,
                   logicVars, routerVars, hostVars>>

ReaderNext ==
    \/ ReadParsePdu
    \/ \E n \in ReadSizes : ReadOwnBuf(n)
    \/ ReadAtEof

ReaderSpec == ReaderInit /\ [][ReaderNext]_vars

\* The buffer is a part of the frame of a PDU, and not the whole of it.
PartOfAPdu(buffer) ==
    \E p \in ReaderPdus :
        /\ Len(buffer) < Len(write(p))
        /\ buffer = SubSeq(write(p), 1, Len(buffer))

\* C37: when the buffer starts with a whole PDU, the next step of read_pdu
\* returns that PDU, takes exactly its bytes off the front of the buffer
\* and reads nothing from the socket, however many PDUs follow it; when
\* the buffer holds only a part of a PDU, that part stays at the front of
\* the buffer, to which bytes of the socket are added in the order they
\* were sent, and at the end of the stream nothing is returned from it.
C37_BufferedPdusInOrder ==
    [][/\ \A p \in ReaderPdus :
            starts_with(input.bytes, write(p))
                => /\ output'.result = "Some"
                   /\ output'.pdu = p
                   /\ output'.position = Len(write(p))
                   /\ write(p) \o input'.bytes = input.bytes
                   /\ output'.bytes = output.bytes
       /\ PartOfAPdu(input.bytes)
            => /\ output'.pdu = NoPdu
               /\ starts_with(input'.bytes, input.bytes)
               /\ input'.bytes \o output'.bytes
                     = input.bytes \o output.bytes
               /\ output'.result = "reading" \/ output.bytes = <<>>
      ]_vars

\* The two PDUs and the part of a third that one read of the socket brought
\* were in the buffer; the second PDU has been returned, and the part of
\* the third is what the buffer holds.
C37_Witness ==
    /\ output.op = "read_pdu"
    /\ output.result = "Some"
    /\ output.pdu = Pdu(ESME_ROK, 3, "submit_sm_resp", <<<<49>>>>)
    /\ output.bytes = <<>>
    /\ input.bytes = SubSeq(write(Pdu(ESME_ROK, 2, "bind_transmitter_resp",
                                      <<<<97, 98>>>>)), 1, 9)

\* ---------------------------------------------------------- specification

Next ==
    \/ \E c \in Conns : Accept(c)
    \/ \E c \in Conns : process_stream(c)
    \/ \E c \in Conns : \E f \in Frames(NextSeq(c)) : ClientSend(c, f)
    \/ \E c \in Conns : \E how \in {"eof", "eof_mid_pdu"} : ClientClose(c, how)
    \/ \E c \in Conns : ReadPdu(c)
    \/ \E c \in Conns : HandlePdu(c)
    \/ \E c \in Conns : LockLogic(c)
    \/ \E c \in Conns : \E r \in BindResults : LogicBind(c, r)
    \/ \E c \in Conns : \E r \in SubmitSmResults : LogicSubmitSm(c, r)
    \/ \E c \in Conns : Register(c)
    \/ \E c \in Conns : \E r \in {"Ok", "IoError"} : WriteLength(c, r)
    \/ \E c \in Conns : \E r \in {"Ok", "IoError"} : WritePdu(c, r)
    \/ \E c \in Conns : Disconnect(c)
    \/ \E c \in Conns : Release(c)
    \/ \E p \in HostPdus(100 + hostCalls) : receive_pdu(p)
    \/ \E w \in writes : \E r \in {"Ok", "IoError", "BrokenPipe"} :
          SpawnedWriteLength(w, r)
    \/ \E w \in writes : \E r \in {"Ok", "IoError"} : SpawnedWrite(w, r)

Spec == Init /\ [][Next]_vars

====
